---------------------------- MODULE Spec2Model ----------------------------
(***************************************************************************)
(* Model of the C++ bridge of the concrete optimizer                       *)
(* (concrete-optimizer-cpp/src/concrete-optimizer.rs): the circuit graph   *)
(* with its compositions, the single-parameter solve entry points, the     *)
(* feasibility sentinel and the conversion of a solved parameter set into  *)
(* a keyset with per-instruction key bindings.                             *)
(*                                                                         *)
(* Conventions.                                                            *)
(*  - Operator indices are 0-based as in the source; the operator of index *)
(*    i is operators[i + 1].                                               *)
(*  - An Option<T> / a nullable pointer is a sequence of length 0 or 1.    *)
(*  - An f64 is an integer count of halves (0 is 0.0, ONE is 1.0, values   *)
(*    above ONE are above 1.0) or NaN; FLt is the IEEE "<", false as soon  *)
(*    as one side is NaN.                                                  *)
(*  - The search procedures, the cost model and the graph container live   *)
(*    in the concrete_optimizer crate, outside the bridge; they are        *)
(*    modelled by their contract and say so where they are defined.        *)
(***************************************************************************)
EXTENDS Integers, Sequences, FiniteSets, TLC

\* ------------------------------------------------------------------ bounds

\* Largest number of operators of a graph that is only built and composed.
MaxOps == 3

\* Largest number of operators of a graph that is also solved.
MaxSolveOps == 2

\* add_all_compositions is called while fewer edges than this are recorded.
MaxCompositions == 1

\* Largest f64 the model draws, in halves (ONE + 1 is 1.5).
MaxPError == 3

\* Largest u64 a caller writes into a field of a DagSolution.
MaxParam == 2

\* Largest number of operators of the graph a caller-written DagSolution is
\* converted against.
MaxConvertOps == 1

\* Largest number of fields a caller overwrites in the DagSolution it holds.
MaxEdits == 2

\* Largest number of operators of a graph built with every operation of the
\* builder.
MaxBuildOps == 3

\* ------------------------------------------------------------ f64 values

\* The f64 1.0, in halves: the error probability that signals "no solution".
ONE == 2

\* f64::NAN.
NaN == -1

F64s == {NaN} \cup (0 .. MaxPError)

\* IEEE comparison a < b.
FLt(a, b) == a # NaN /\ b # NaN /\ a < b

\* IEEE comparison a <= b.
FLe(a, b) == a # NaN /\ b # NaN /\ a <= b

\* IEEE comparison a == b.
FEq(a, b) == a # NaN /\ b # NaN /\ a = b

\* keys_spec::NO_KEY_ID, the largest identifier: no key of a keyset has it.
NO_KEY_ID == 2147483647

\* --------------------------------------------------------------- options

\* ffi::Options, cut to the field that bounds the result of a search: the
\* error ceiling. The other fields only reach the search procedures.
OptionsSet ==
    [ maximum_acceptable_error_probability : 0 .. (ONE - 1) ]

\* -------------------------------------------------------------- solutions

\* ffi::Solution::default(): every field zero.
DefaultSolution ==
    [ input_lwe_dimension |-> 0,
      internal_ks_output_lwe_dimension |-> 0,
      ks_decomposition_level_count |-> 0,
      ks_decomposition_base_log |-> 0,
      glwe_polynomial_size |-> 0,
      glwe_dimension |-> 0,
      br_decomposition_level_count |-> 0,
      br_decomposition_base_log |-> 0,
      complexity |-> 0,
      noise_max |-> 0,
      p_error |-> 0 ]

\* ffi::DagSolution::default(): every field zero, false or empty.
DefaultDagSolution ==
    [ input_lwe_dimension |-> 0,
      internal_ks_output_lwe_dimension |-> 0,
      ks_decomposition_level_count |-> 0,
      ks_decomposition_base_log |-> 0,
      glwe_polynomial_size |-> 0,
      glwe_dimension |-> 0,
      br_decomposition_level_count |-> 0,
      br_decomposition_base_log |-> 0,
      complexity |-> 0,
      noise_max |-> 0,
      p_error |-> 0,
      global_p_error |-> 0,
      use_wop_pbs |-> FALSE,
      cb_decomposition_level_count |-> 0,
      cb_decomposition_base_log |-> 0,
      pp_decomposition_level_count |-> 0,
      pp_decomposition_base_log |-> 0,
      crt_decomposition |-> << >> ]

\* no_solution(): the default Solution with p_error = 1.0.
no_solution == [DefaultSolution EXCEPT !.p_error = ONE]

\* Mutant of no_dag_solution: the sentinel forgotten, the default returned.
no_dag_solution_default == DefaultDagSolution

\* no_dag_solution(): the default DagSolution with p_error = 1.0.
no_dag_solution == [DefaultDagSolution EXCEPT !.p_error = ONE]

\* impl From<atomic_pattern::Solution> for ffi::Solution: a field by field copy.
solution_from_atomic(a) ==
    [ input_lwe_dimension |-> a.input_lwe_dimension,
      internal_ks_output_lwe_dimension |-> a.internal_ks_output_lwe_dimension,
      ks_decomposition_level_count |-> a.ks_decomposition_level_count,
      ks_decomposition_base_log |-> a.ks_decomposition_base_log,
      glwe_polynomial_size |-> a.glwe_polynomial_size,
      glwe_dimension |-> a.glwe_dimension,
      br_decomposition_level_count |-> a.br_decomposition_level_count,
      br_decomposition_base_log |-> a.br_decomposition_base_log,
      complexity |-> a.complexity,
      noise_max |-> a.noise_max,
      p_error |-> a.p_error ]

\* impl From<&ffi::Solution> for ffi::DagSolution.
convert_to_dag_solution(sol) ==
    [ input_lwe_dimension |-> sol.input_lwe_dimension,
      internal_ks_output_lwe_dimension |-> sol.internal_ks_output_lwe_dimension,
      ks_decomposition_level_count |-> sol.ks_decomposition_level_count,
      ks_decomposition_base_log |-> sol.ks_decomposition_base_log,
      glwe_polynomial_size |-> sol.glwe_polynomial_size,
      glwe_dimension |-> sol.glwe_dimension,
      br_decomposition_level_count |-> sol.br_decomposition_level_count,
      br_decomposition_base_log |-> sol.br_decomposition_base_log,
      complexity |-> sol.complexity,
      noise_max |-> sol.noise_max,
      p_error |-> sol.p_error,
      global_p_error |-> NaN,
      use_wop_pbs |-> FALSE,
      cb_decomposition_level_count |-> 0,
      cb_decomposition_base_log |-> 0,
      pp_decomposition_level_count |-> 0,
      pp_decomposition_base_log |-> 0,
      crt_decomposition |-> << >> ]

\* impl From<DagSolution> for ffi::DagSolution: the WpSolution arm zeroes the
\* alternate-strategy fields, the WopSolution arm copies them.
dag_solution_from(sol) ==
    IF sol.variant = "WpSolution"
    THEN [ input_lwe_dimension |-> sol.input_lwe_dimension,
           internal_ks_output_lwe_dimension |-> sol.internal_ks_output_lwe_dimension,
           ks_decomposition_level_count |-> sol.ks_decomposition_level_count,
           ks_decomposition_base_log |-> sol.ks_decomposition_base_log,
           glwe_polynomial_size |-> sol.glwe_polynomial_size,
           glwe_dimension |-> sol.glwe_dimension,
           br_decomposition_level_count |-> sol.br_decomposition_level_count,
           br_decomposition_base_log |-> sol.br_decomposition_base_log,
           complexity |-> sol.complexity,
           noise_max |-> sol.noise_max,
           p_error |-> sol.p_error,
           global_p_error |-> sol.global_p_error,
           use_wop_pbs |-> FALSE,
           cb_decomposition_level_count |-> 0,
           cb_decomposition_base_log |-> 0,
           pp_decomposition_level_count |-> 0,
           pp_decomposition_base_log |-> 0,
           crt_decomposition |-> << >> ]
    ELSE [ input_lwe_dimension |-> sol.input_lwe_dimension,
           internal_ks_output_lwe_dimension |-> sol.internal_ks_output_lwe_dimension,
           ks_decomposition_level_count |-> sol.ks_decomposition_level_count,
           ks_decomposition_base_log |-> sol.ks_decomposition_base_log,
           glwe_polynomial_size |-> sol.glwe_polynomial_size,
           glwe_dimension |-> sol.glwe_dimension,
           br_decomposition_level_count |-> sol.br_decomposition_level_count,
           br_decomposition_base_log |-> sol.br_decomposition_base_log,
           complexity |-> sol.complexity,
           noise_max |-> sol.noise_max,
           p_error |-> sol.p_error,
           global_p_error |-> sol.global_p_error,
           use_wop_pbs |-> TRUE,
           cb_decomposition_level_count |-> sol.cb_decomposition_level_count,
           cb_decomposition_base_log |-> sol.cb_decomposition_base_log,
           pp_decomposition_level_count |-> sol.pp_decomposition_level_count,
           pp_decomposition_base_log |-> sol.pp_decomposition_base_log,
           crt_decomposition |-> sol.crt_decomposition ]


\* ------------------------------------------------- keyset of one solution

\* big_key of convert_to_circuit_solution.
big_key_of(sol) ==
    [ identifier |-> 0,
      polynomial_size |-> sol.glwe_polynomial_size,
      glwe_dimension |-> sol.glwe_dimension,
      description |-> "big representation" ]

\* small_key of convert_to_circuit_solution.
small_key_of(sol) ==
    [ identifier |-> 1,
      polynomial_size |-> sol.internal_ks_output_lwe_dimension,
      glwe_dimension |-> 1,
      description |-> "small representation" ]

\* Mutant of keyswitch_key_of: base log and level swapped.
keyswitch_key_swapped(sol) ==
    [ identifier |-> 0,
      input_key |-> big_key_of(sol),
      output_key |-> small_key_of(sol),
      ks_decomposition_parameter |->
          [ level |-> sol.ks_decomposition_base_log,
            log2_base |-> sol.ks_decomposition_level_count ],
      description |-> "tlu keyswitch" ]

\* keyswitch_key of convert_to_circuit_solution.
keyswitch_key_of(sol) ==
    [ identifier |-> 0,
      input_key |-> big_key_of(sol),
      output_key |-> small_key_of(sol),
      ks_decomposition_parameter |->
          [ level |-> sol.ks_decomposition_level_count,
            log2_base |-> sol.ks_decomposition_base_log ],
      description |-> "tlu keyswitch" ]

\* bootstrap_key of convert_to_circuit_solution.
bootstrap_key_of(sol) ==
    [ identifier |-> 0,
      input_key |-> small_key_of(sol),
      output_key |-> big_key_of(sol),
      br_decomposition_parameter |->
          [ level |-> sol.br_decomposition_level_count,
            log2_base |-> sol.br_decomposition_base_log ],
      description |-> "tlu bootstrap" ]

\* circuit_bootstrap_keys of convert_to_circuit_solution.
circuit_bootstrap_keys_of(sol) ==
    IF sol.use_wop_pbs
    THEN << [ identifier |-> 0,
              representation_key |-> big_key_of(sol),
              br_decomposition_parameter |->
                  [ level |-> sol.cb_decomposition_level_count,
                    log2_base |-> sol.cb_decomposition_base_log ],
              description |-> "circuit bootstrap for woppbs" ] >>
    ELSE << >>

\* Mutant of private_functional_packing_keys_of: the key built whatever the
\* strategy.
private_functional_packing_keys_always(sol) ==
    << [ identifier |-> 0,
         representation_key |-> big_key_of(sol),
         br_decomposition_parameter |->
             [ level |-> sol.pp_decomposition_level_count,
               log2_base |-> sol.pp_decomposition_base_log ],
         description |-> "private functional packing for woppbs" ] >>

\* private_functional_packing_keys of convert_to_circuit_solution.
private_functional_packing_keys_of(sol) ==
    IF sol.use_wop_pbs
    THEN << [ identifier |-> 0,
              representation_key |-> big_key_of(sol),
              br_decomposition_parameter |->
                  [ level |-> sol.pp_decomposition_level_count,
                    log2_base |-> sol.pp_decomposition_base_log ],
              description |-> "private functional packing for woppbs" ] >>
    ELSE << >>

\* keys.last().map_or(NO_KEY_ID, |v| v.identifier)
last_identifier_or_no_key(keys) ==
    IF keys = << >> THEN NO_KEY_ID ELSE keys[Len(keys)].identifier

\* Mutant of instruction_keys_of: the bootstrap slot names the small secret
\* key's identifier instead of the bootstrap key's.
instruction_keys_wrong_id(sol) ==
    [ input_key |-> big_key_of(sol).identifier,
      tlu_keyswitch_key |-> keyswitch_key_of(sol).identifier,
      tlu_bootstrap_key |-> small_key_of(sol).identifier,
      tlu_circuit_bootstrap_key |->
          last_identifier_or_no_key(circuit_bootstrap_keys_of(sol)),
      tlu_private_functional_packing_key |->
          last_identifier_or_no_key(private_functional_packing_keys_of(sol)),
      output_key |-> big_key_of(sol).identifier,
      extra_conversion_keys |-> << >> ]

\* instruction_keys of convert_to_circuit_solution.
instruction_keys_of(sol) ==
    [ input_key |-> big_key_of(sol).identifier,
      tlu_keyswitch_key |-> keyswitch_key_of(sol).identifier,
      tlu_bootstrap_key |-> bootstrap_key_of(sol).identifier,
      tlu_circuit_bootstrap_key |->
          last_identifier_or_no_key(circuit_bootstrap_keys_of(sol)),
      tlu_private_functional_packing_key |->
          last_identifier_or_no_key(private_functional_packing_keys_of(sol)),
      output_key |-> big_key_of(sol).identifier,
      extra_conversion_keys |-> << >> ]

\* Mutant of instructions_keys_of: one record too few (an off-by-one length).
instructions_keys_short(sol, dag_len) ==
    [i \in 1 .. (IF dag_len = 0 THEN 0 ELSE dag_len - 1) |-> instruction_keys_of(sol)]

\* vec![instruction_keys; dag.0.len()]
instructions_keys_of(sol, dag_len) ==
    [i \in 1 .. dag_len |-> instruction_keys_of(sol)]

\* circuit_keys of convert_to_circuit_solution.
circuit_keys_of(sol) ==
    [ secret_keys |-> << big_key_of(sol), small_key_of(sol) >>,
      keyswitch_keys |-> << keyswitch_key_of(sol) >>,
      bootstrap_keys |-> << bootstrap_key_of(sol) >>,
      conversion_keyswitch_keys |-> << >>,
      circuit_bootstrap_keys |-> circuit_bootstrap_keys_of(sol),
      private_functional_packing_keys |-> private_functional_packing_keys_of(sol) ]

\* Mutant of is_feasible_of: "<=" written for "<".
is_feasible_le(sol) == FLe(sol.p_error, ONE)

\* is_feasible of convert_to_circuit_solution: sol.p_error < 1.0.
is_feasible_of(sol) == FLt(sol.p_error, ONE)

\* Mutant of error_msg_of: the two arms exchanged.
error_msg_exchanged(is_feasible) ==
    IF is_feasible THEN "No crypto-parameters for the given constraints" ELSE ""

\* error_msg of convert_to_circuit_solution.
error_msg_of(is_feasible) ==
    IF is_feasible THEN "" ELSE "No crypto-parameters for the given constraints"

\* convert_to_circuit_solution(sol, dag), dag read only for its length.
convert_to_circuit_solution(sol, dag_len) ==
    [ circuit_keys |-> circuit_keys_of(sol),
      instructions_keys |-> instructions_keys_of(sol, dag_len),
      crt_decomposition |-> sol.crt_decomposition,
      complexity |-> sol.complexity,
      p_error |-> sol.p_error,
      global_p_error |-> sol.global_p_error,
      is_feasible |-> is_feasible_of(sol),
      error_msg |-> error_msg_of(is_feasible_of(sol)) ]


\* ------------------------------------------------------------------ state

\* operators    the graph's operators in insertion order, each with the name
\*              of the circuit whose builder appended it, its variant, the
\*              indices of its inputs, its output precision and the
\*              squared-norm bound of its noise growth
\* output_tags  output_tags[i + 1] is TRUE when operator i is tagged as output
\* compositions the composition edges, in the order they were recorded
\* returned     the value the last solve or conversion call handed to the
\*              caller: the call, the value, where its p_error comes from
\*              ("found": a tuple of the search, "none": the search found no
\*              tuple, "composed": optimize refused a composed graph,
\*              "caller": the caller wrote the value), the Options of the
\*              solve it comes from and, for a conversion, its argument
\* edits        how many fields of the held DagSolution the caller overwrote
\* index        the ffi::OperatorIndex the last builder call handed to the
\*              caller, << >> before any
\* aborted      TRUE once a call has panicked: the process is gone
VARIABLES operators, output_tags, compositions, returned, edits, aborted, index

vars == << operators, output_tags, compositions, returned, edits, aborted, index >>

graph == << operators, output_tags, compositions >>

\* The names a circuit builder is opened with.
CircuitNames == {"a", "b"}

\* The operator indices of a graph of n operators, in insertion order.
Indices(n) == [i \in 1 .. n |-> i - 1]

\* The output precisions a builder call declares; the graphs that are
\* composed and solved are of one precision.
Precisions == {4, 8}
OnePrecision == {4}

\* The output and input slots a caller of add_composition names: the first
\* and the second of a circuit.
Positions == {0, 1}

\* ------------------------------------------- graph container (contract)

\* unparametrized::Dag::len
dag_len == Len(operators)

\* Operator::is_input
is_input(id) == operators[id + 1].kind = "Input"

\* Operator::is_output: the operator carries the output tag.
is_output(id) == output_tags[id + 1]

\* Dag::get_input_operators_iter, as the indices it yields.
get_input_operators_iter == SelectSeq(Indices(dag_len), is_input)

\* Dag::get_output_operators_iter, as the indices it yields.
get_output_operators_iter == SelectSeq(Indices(dag_len), is_output)

\* Whether a circuit of that name exists: some operator was appended to it.
circuit_exists(name) == \E i \in 1 .. dag_len : operators[i].circuit = name

\* Dag::get_circuit(name).get_input_operators_iter
circuit_input_operators(name) ==
    SelectSeq(Indices(dag_len),
              LAMBDA id : operators[id + 1].circuit = name /\ is_input(id))

\* Dag::get_circuit(name).get_output_operators_iter
circuit_output_operators(name) ==
    SelectSeq(Indices(dag_len),
              LAMBDA id : operators[id + 1].circuit = name /\ is_output(id))

\* Dag::is_composed: at least one composition edge is recorded.
is_composed == compositions # << >>

\* Dag::add_compositions(froms, tos): one edge per pair, froms outermost.
cross_product(froms, tos) ==
    [k \in 1 .. (Len(froms) * Len(tos)) |->
        [ from |-> froms[((k - 1) \div Len(tos)) + 1],
          to |-> tos[((k - 1) % Len(tos)) + 1] ]]

\* ------------------------------------------------------ graph operations

\* The state of the solve side, left alone by every graph operation.
SolveUnchanged == UNCHANGED << returned, edits >>

\* Nothing handed to the caller.
NoReturn ==
    [ fn |-> "none", value |-> << >>, origin |-> "none", options |-> << >>,
      arg |-> << >> ]

\* Mutant of OperatorIndex_from: the index after the one received.
OperatorIndex_from_next(oi) == oi + 1

\* From<OperatorIndex> for ffi::OperatorIndex
OperatorIndex_from(oi) == oi

\* Mutant of OperatorIndex_into: the index before the one received.
OperatorIndex_into_previous(op) == IF op = 0 THEN 0 ELSE op - 1

\* Into<OperatorIndex> for ffi::OperatorIndex, and its use on a slice.
OperatorIndex_into(op) == op
OperatorIndices_into(inputs) ==
    [i \in 1 .. Len(inputs) |-> OperatorIndex_into(inputs[i])]

\* The builder of the graph container appends one operator and returns its
\* index; it validates that the operators referenced exist and panics
\* otherwise.
AddOperator(operator) ==
    /\ ~aborted
    /\ IF \A i \in 1 .. Len(operator.inputs) : operator.inputs[i] < dag_len
       THEN /\ operators' = Append(operators, operator)
            /\ output_tags' = Append(output_tags, FALSE)
            /\ index' = << OperatorIndex_from(dag_len) >>
            /\ UNCHANGED aborted
       ELSE /\ aborted' = TRUE
            /\ UNCHANGED << operators, output_tags, index >>
    /\ UNCHANGED compositions
    /\ SolveUnchanged

\* The squared-norm bound of an operator that is fresh or bootstrapped.
FreshNorm2 == 1

\* The largest of the squared-norm bounds of the operators `inputs`, and
\* the precision of the first of them; of no account when one is missing.
inputs_norm2(inputs) ==
    IF inputs = << >> \/ \E i \in 1 .. Len(inputs) : inputs[i] >= dag_len
    THEN FreshNorm2
    ELSE CHOOSE n \in {operators[inputs[i] + 1].norm2 : i \in 1 .. Len(inputs)} :
            \A i \in 1 .. Len(inputs) : operators[inputs[i] + 1].norm2 <= n

inputs_precision(inputs) ==
    IF inputs = << >> \/ inputs[1] >= dag_len
    THEN 0
    ELSE operators[inputs[1] + 1].out_precision

\* DagBuilder::add_input on the builder of `circuit`.
AddInput(circuit, out_precision) ==
    AddOperator([ circuit |-> circuit, kind |-> "Input", inputs |-> << >>,
                  out_precision |-> out_precision, norm2 |-> FreshNorm2 ])

\* DagBuilder::add_zero_noise on the builder of `circuit`.
AddZeroNoise(circuit, out_precision) ==
    AddOperator([ circuit |-> circuit, kind |-> "ZeroNoise", inputs |-> << >>,
                  out_precision |-> out_precision, norm2 |-> FreshNorm2 ])

\* DagBuilder::add_lut: a table lookup, bootstrapped to fresh noise.
AddLut(circuit, input, out_precision) ==
    AddOperator([ circuit |-> circuit, kind |-> "Lut",
                  inputs |-> << OperatorIndex_into(input) >>,
                  out_precision |-> out_precision, norm2 |-> FreshNorm2 ])

\* operator::Weights: the squared norm of the weights of a dot.
weights_norm2(weights) ==
    IF Len(weights) = 0 THEN 0
    ELSE IF Len(weights) = 1 THEN weights[1] * weights[1]
    ELSE weights[1] * weights[1] + weights[2] * weights[2]

\* DagBuilder::add_dot: the noise of the inputs grows by the squared norm of
\* the weights.
AddDot(circuit, inputs, weights) ==
    AddOperator([ circuit |-> circuit, kind |-> "Dot",
                  inputs |-> OperatorIndices_into(inputs),
                  out_precision |-> inputs_precision(inputs),
                  norm2 |-> weights_norm2(weights) * inputs_norm2(inputs) ])

\* DagBuilder::add_linear_noise
AddLinearNoise(circuit, inputs) ==
    AddOperator([ circuit |-> circuit, kind |-> "LinearNoise",
                  inputs |-> OperatorIndices_into(inputs),
                  out_precision |-> inputs_precision(inputs),
                  norm2 |-> inputs_norm2(inputs) ])

\* DagBuilder::add_max_noise
AddMaxNoise(circuit, inputs) ==
    AddOperator([ circuit |-> circuit, kind |-> "MaxNoise",
                  inputs |-> OperatorIndices_into(inputs),
                  out_precision |-> inputs_precision(inputs),
                  norm2 |-> inputs_norm2(inputs) ])

\* DagBuilder::add_round_op
AddRoundOp(circuit, input, rounded_precision) ==
    AddOperator([ circuit |-> circuit, kind |-> "Round",
                  inputs |-> << OperatorIndex_into(input) >>,
                  out_precision |-> rounded_precision,
                  norm2 |-> inputs_norm2(<< input >>) ])

\* DagBuilder::add_unsafe_cast_op
AddUnsafeCastOp(circuit, input, new_precision) ==
    AddOperator([ circuit |-> circuit, kind |-> "UnsafeCast",
                  inputs |-> << OperatorIndex_into(input) >>,
                  out_precision |-> new_precision,
                  norm2 |-> inputs_norm2(<< input >>) ])

\* DagBuilder::add_change_partition_with_src
AddChangePartitionWithSrc(circuit, input) ==
    AddOperator([ circuit |-> circuit, kind |-> "ChangePartitionSrc",
                  inputs |-> << OperatorIndex_into(input) >>,
                  out_precision |-> inputs_precision(<< input >>),
                  norm2 |-> inputs_norm2(<< input >>) ])

\* DagBuilder::add_change_partition_with_dst
AddChangePartitionWithDst(circuit, input) ==
    AddOperator([ circuit |-> circuit, kind |-> "ChangePartitionDst",
                  inputs |-> << OperatorIndex_into(input) >>,
                  out_precision |-> inputs_precision(<< input >>),
                  norm2 |-> inputs_norm2(<< input >>) ])

\* Mutant of TagOperatorAsOutput: a tag already set is taken off.
TagOperatorAsOutputToggle(op) ==
    /\ ~aborted
    /\ op < dag_len
    /\ output_tags' = [output_tags EXCEPT ![op + 1] = ~output_tags[op + 1]]
    /\ UNCHANGED << operators, compositions, aborted, index >>
    /\ SolveUnchanged

\* DagBuilder::tag_operator_as_output on an existing index.
TagOperatorAsOutput(op) ==
    /\ ~aborted
    /\ op < dag_len
    /\ output_tags' = [output_tags EXCEPT ![op + 1] = TRUE]
    /\ UNCHANGED << operators, compositions, aborted, index >>
    /\ SolveUnchanged

\* Mutant of add_composition_from: the output slot counted over the whole
\* unit instead of the from-circuit.
add_composition_from_unit(from_func, from_pos) ==
    IF from_pos < Len(get_output_operators_iter)
    THEN << get_output_operators_iter[from_pos + 1] >>
    ELSE << >>

\* from_index of Dag::add_composition:
\* get_circuit(from_func).get_output_operators_iter().nth(from_pos), None
\* when the circuit has no such output.
add_composition_from(from_func, from_pos) ==
    IF from_pos < Len(circuit_output_operators(from_func))
    THEN << circuit_output_operators(from_func)[from_pos + 1] >>
    ELSE << >>

\* Mutant of add_composition_to: a slot out of range falls back on the last
\* input of the circuit.
add_composition_to_clamped(to_func, to_pos) ==
    IF circuit_input_operators(to_func) = << >>
    THEN << >>
    ELSE IF to_pos < Len(circuit_input_operators(to_func))
         THEN << circuit_input_operators(to_func)[to_pos + 1] >>
         ELSE << circuit_input_operators(to_func)[
                    Len(circuit_input_operators(to_func))] >>

\* to_index of Dag::add_composition:
\* get_circuit(to_func).get_input_operators_iter().nth(to_pos).
add_composition_to(to_func, to_pos) ==
    IF to_pos < Len(circuit_input_operators(to_func))
    THEN << circuit_input_operators(to_func)[to_pos + 1] >>
    ELSE << >>

\* Dag::add_composition(from_func, from_pos, to_func, to_pos): get_circuit
\* panics on an unknown name and unwrap() on a slot out of range; with both
\* found, one edge is recorded.
AddComposition(from_func, from_pos, to_func, to_pos) ==
    /\ ~aborted
    /\ UNCHANGED << operators, output_tags, index >>
    /\ IF /\ circuit_exists(from_func)
          /\ circuit_exists(to_func)
          /\ add_composition_from(from_func, from_pos) # << >>
          /\ add_composition_to(to_func, to_pos) # << >>
       THEN /\ compositions' =
                   Append(compositions,
                          [ from |-> add_composition_from(from_func, from_pos)[1],
                            to |-> add_composition_to(to_func, to_pos)[1] ])
            /\ UNCHANGED aborted
            /\ SolveUnchanged
       ELSE /\ aborted' = TRUE
            /\ returned' = NoReturn
            /\ edits' = 0
            /\ UNCHANGED compositions

\* Mutant of all_compositions: an output is not wired to the inputs of its
\* own circuit.
all_compositions_other_circuit ==
    SelectSeq(cross_product(get_output_operators_iter, get_input_operators_iter),
              LAMBDA e : operators[e.from + 1].circuit # operators[e.to + 1].circuit)

\* The edges Dag::add_all_compositions records: every output of the unit to
\* every input of the unit.
all_compositions ==
    cross_product(get_output_operators_iter, get_input_operators_iter)

\* Dag::add_all_compositions.
AddAllCompositions ==
    /\ ~aborted
    /\ compositions' = compositions \o all_compositions
    /\ UNCHANGED << operators, output_tags, aborted, index >>
    /\ SolveUnchanged


\* ---------------------------------------------- search procedures (contract)

\* The error probabilities an admissible tuple may carry under `options`:
\* below 1.0 and not above the configured ceiling.
admissible_p_errors(options) ==
    {p \in 0 .. MaxPError :
        FLt(p, ONE) /\ FLe(p, options.maximum_acceptable_error_probability)}

\* The parameter tuple the model lets a search return.
SearchParameters ==
    [ input_lwe_dimension |-> 8,
      internal_ks_output_lwe_dimension |-> 3,
      ks_decomposition_level_count |-> 5,
      ks_decomposition_base_log |-> 6,
      glwe_polynomial_size |-> 4,
      glwe_dimension |-> 2,
      br_decomposition_level_count |-> 7,
      br_decomposition_base_log |-> 9,
      complexity |-> 1,
      noise_max |-> 1 ]

\* atomic_pattern::optimize_one(...).best_solution: None, or an admissible
\* tuple.
optimize_one(options) ==
    {<< >>} \cup
    { << [ input_lwe_dimension |-> SearchParameters.input_lwe_dimension,
           internal_ks_output_lwe_dimension |->
               SearchParameters.internal_ks_output_lwe_dimension,
           ks_decomposition_level_count |->
               SearchParameters.ks_decomposition_level_count,
           ks_decomposition_base_log |-> SearchParameters.ks_decomposition_base_log,
           glwe_polynomial_size |-> SearchParameters.glwe_polynomial_size,
           glwe_dimension |-> SearchParameters.glwe_dimension,
           br_decomposition_level_count |->
               SearchParameters.br_decomposition_level_count,
           br_decomposition_base_log |-> SearchParameters.br_decomposition_base_log,
           complexity |-> SearchParameters.complexity,
           noise_max |-> SearchParameters.noise_max,
           p_error |-> p ] >> : p \in admissible_p_errors(options) }

\* solo_key::optimize_generic::optimize(...): None, or an admissible tuple of
\* the WpSolution or of the WopSolution variant.
optimize_generic(options) ==
    {<< >>} \cup
    { << [ variant |-> v,
           input_lwe_dimension |-> SearchParameters.input_lwe_dimension,
           internal_ks_output_lwe_dimension |->
               SearchParameters.internal_ks_output_lwe_dimension,
           ks_decomposition_level_count |->
               SearchParameters.ks_decomposition_level_count,
           ks_decomposition_base_log |-> SearchParameters.ks_decomposition_base_log,
           glwe_polynomial_size |-> SearchParameters.glwe_polynomial_size,
           glwe_dimension |-> SearchParameters.glwe_dimension,
           br_decomposition_level_count |->
               SearchParameters.br_decomposition_level_count,
           br_decomposition_base_log |-> SearchParameters.br_decomposition_base_log,
           complexity |-> SearchParameters.complexity,
           noise_max |-> SearchParameters.noise_max,
           p_error |-> p,
           global_p_error |-> p,
           cb_decomposition_level_count |-> 2,
           cb_decomposition_base_log |-> 3,
           pp_decomposition_level_count |-> 4,
           pp_decomposition_base_log |-> 5,
           crt_decomposition |-> << 2, 3 >> ] >> :
        v \in {"WpSolution", "WopSolution"}, p \in admissible_p_errors(options) }

\* -------------------------------------------------------- solve operations

\* What every solve and conversion call leaves alone: the graph.
GraphUnchanged ==
    UNCHANGED << operators, output_tags, compositions, aborted, index >>

\* result.best_solution.map_or_else(no_solution, |solution| solution.into())
optimize_bootstrap_result(best_solution) ==
    IF best_solution = << >>
    THEN no_solution
    ELSE solution_from_atomic(best_solution[1])

\* optimize_bootstrap(precision, noise_factor, options); precision and noise
\* factor only reach the search.
OptimizeBootstrap(options) ==
    /\ ~aborted
    /\ \E best_solution \in optimize_one(options) :
          returned' = [ fn |-> "optimize_bootstrap",
                        value |-> << optimize_bootstrap_result(best_solution) >>,
                        origin |-> IF best_solution = << >> THEN "none" ELSE "found",
                        options |-> << options >>,
                        arg |-> << >> ]
    /\ UNCHANGED edits
    /\ GraphUnchanged

\* convert_to_dag_solution(sol), on the Solution the caller holds.
ConvertToDagSolution ==
    /\ ~aborted
    /\ returned.fn = "optimize_bootstrap"
    /\ returned' = [returned EXCEPT
                       !.fn = "convert_to_dag_solution",
                       !.arg = returned.value,
                       !.value = << convert_to_dag_solution(returned.value[1]) >>]
    /\ UNCHANGED edits
    /\ GraphUnchanged

\* Mutant of optimize_result: the is_composed early return left out.
optimize_result_unchecked(composed, result) ==
    IF result = << >> THEN no_dag_solution ELSE dag_solution_from(result[1])

\* Dag::optimize: the sentinel for a composed graph, else
\* result.map_or_else(no_dag_solution, |solution| solution.into()).
optimize_result(composed, result) ==
    IF composed
    THEN no_dag_solution
    ELSE IF result = << >> THEN no_dag_solution ELSE dag_solution_from(result[1])

\* Dag::optimize(options).
Optimize(options) ==
    /\ ~aborted
    /\ \E result \in optimize_generic(options) :
          returned' = [ fn |-> "optimize",
                        value |-> << optimize_result(is_composed, result) >>,
                        origin |-> IF is_composed THEN "composed"
                                   ELSE IF result = << >> THEN "none" ELSE "found",
                        options |-> << options >>,
                        arg |-> << >> ]
    /\ UNCHANGED edits
    /\ GraphUnchanged

\* The calls that hand the caller a DagSolution.
DagSolutionCalls == {"optimize", "convert_to_dag_solution", "caller"}

\* convert_to_circuit_solution(sol, dag), on the DagSolution the caller holds.
ConvertToCircuitSolution ==
    /\ ~aborted
    /\ returned.fn \in DagSolutionCalls
    /\ returned' = [returned EXCEPT
                       !.fn = "convert_to_circuit_solution",
                       !.arg = returned.value,
                       !.value = << convert_to_circuit_solution(returned.value[1],
                                                                dag_len) >>]
    /\ UNCHANGED edits
    /\ GraphUnchanged


\* ------------------------------------------- multi-parameter solve results

\* impl From<keys_spec::SecretLweKey> for ffi::SecretLweKey.
secret_lwe_key_from(v) ==
    [ identifier |-> v.identifier,
      polynomial_size |-> v.polynomial_size,
      glwe_dimension |-> v.glwe_dimension,
      description |-> v.description ]

\* impl From<KsDecompositionParameters> / From<BrDecompositionParameters>.
decomposition_parameters_from(v) ==
    [ level |-> v.level, log2_base |-> v.log2_base ]

\* impl From<keys_spec::KeySwitchKey> for ffi::KeySwitchKey.
keyswitch_key_from(v) ==
    [ identifier |-> v.identifier,
      input_key |-> secret_lwe_key_from(v.input_key),
      output_key |-> secret_lwe_key_from(v.output_key),
      ks_decomposition_parameter |->
          decomposition_parameters_from(v.ks_decomposition_parameter),
      description |-> v.description ]

\* impl From<keys_spec::ConversionKeySwitchKey> for ffi::ConversionKeySwitchKey.
conversion_keyswitch_key_from(v) ==
    [ identifier |-> v.identifier,
      input_key |-> secret_lwe_key_from(v.input_key),
      output_key |-> secret_lwe_key_from(v.output_key),
      ks_decomposition_parameter |->
          decomposition_parameters_from(v.ks_decomposition_parameter),
      description |-> v.description,
      fast_keyswitch |-> v.fast_keyswitch ]

\* impl From<keys_spec::BootstrapKey> for ffi::BootstrapKey.
bootstrap_key_from(v) ==
    [ identifier |-> v.identifier,
      input_key |-> secret_lwe_key_from(v.input_key),
      output_key |-> secret_lwe_key_from(v.output_key),
      br_decomposition_parameter |->
          decomposition_parameters_from(v.br_decomposition_parameter),
      description |-> v.description ]

\* impl From<keys_spec::CircuitBoostrapKey> and
\* From<keys_spec::PrivateFunctionalPackingBoostrapKey>.
representation_keyed_from(v) ==
    [ identifier |-> v.identifier,
      representation_key |-> secret_lwe_key_from(v.representation_key),
      br_decomposition_parameter |->
          decomposition_parameters_from(v.br_decomposition_parameter),
      description |-> v.description ]

\* impl From<keys_spec::InstructionKeys> for ffi::InstructionKeys.
instruction_keys_from(v) ==
    [ input_key |-> v.input_key,
      tlu_keyswitch_key |-> v.tlu_keyswitch_key,
      tlu_bootstrap_key |-> v.tlu_bootstrap_key,
      tlu_circuit_bootstrap_key |-> v.tlu_circuit_bootstrap_key,
      tlu_private_functional_packing_key |-> v.tlu_private_functional_packing_key,
      output_key |-> v.output_key,
      extra_conversion_keys |-> v.extra_conversion_keys ]

\* impl From<keys_spec::CircuitKeys> for ffi::CircuitKeys, vec_into on each
\* vector.
circuit_keys_from(v) ==
    [ secret_keys |->
          [i \in 1 .. Len(v.secret_keys) |-> secret_lwe_key_from(v.secret_keys[i])],
      keyswitch_keys |->
          [i \in 1 .. Len(v.keyswitch_keys) |-> keyswitch_key_from(v.keyswitch_keys[i])],
      bootstrap_keys |->
          [i \in 1 .. Len(v.bootstrap_keys) |-> bootstrap_key_from(v.bootstrap_keys[i])],
      circuit_bootstrap_keys |->
          [i \in 1 .. Len(v.circuit_bootstrap_keys) |->
              representation_keyed_from(v.circuit_bootstrap_keys[i])],
      private_functional_packing_keys |->
          [i \in 1 .. Len(v.private_functional_packing_keys) |->
              representation_keyed_from(v.private_functional_packing_keys[i])],
      conversion_keyswitch_keys |->
          [i \in 1 .. Len(v.conversion_keyswitch_keys) |->
              conversion_keyswitch_key_from(v.conversion_keyswitch_keys[i])] ]

\* impl From<CircuitSolution> for ffi::CircuitSolution.
circuit_solution_from(v) ==
    [ circuit_keys |-> circuit_keys_from(v.circuit_keys),
      instructions_keys |->
          [i \in 1 .. Len(v.instructions_keys) |->
              instruction_keys_from(v.instructions_keys[i])],
      crt_decomposition |-> v.crt_decomposition,
      complexity |-> v.complexity,
      p_error |-> v.p_error,
      global_p_error |-> v.global_p_error,
      is_feasible |-> v.is_feasible,
      error_msg |-> v.error_msg ]

\* keys_spec::CircuitSolution of an infeasible multi-parameter solve: flag
\* false, error probability 1.0, an explanatory message, an empty keyset.
multi_no_solution ==
    [ circuit_keys |->
          [ secret_keys |-> << >>,
            keyswitch_keys |-> << >>,
            bootstrap_keys |-> << >>,
            conversion_keyswitch_keys |-> << >>,
            circuit_bootstrap_keys |-> << >>,
            private_functional_packing_keys |-> << >> ],
      instructions_keys |-> << >>,
      crt_decomposition |-> << >>,
      complexity |-> 0,
      p_error |-> ONE,
      global_p_error |-> ONE,
      is_feasible |-> FALSE,
      error_msg |-> "No crypto-parameters for the given constraints" ]

\* keys_spec::CircuitSolution of a feasible multi-parameter solve with one
\* partition: a big and a small secret key, the keyswitch and the bootstrap
\* key linking them, one record per operator.
multi_solution(p, n) ==
    LET big == [ identifier |-> 0,
                 polynomial_size |-> SearchParameters.glwe_polynomial_size,
                 glwe_dimension |-> SearchParameters.glwe_dimension,
                 description |-> "big-secret[0]" ]
        small == [ identifier |-> 1,
                   polynomial_size |->
                       SearchParameters.internal_ks_output_lwe_dimension,
                   glwe_dimension |-> 1,
                   description |-> "small-secret[0]" ]
    IN  [ circuit_keys |->
              [ secret_keys |-> << big, small >>,
                keyswitch_keys |->
                    << [ identifier |-> 0,
                         input_key |-> big,
                         output_key |-> small,
                         ks_decomposition_parameter |->
                             [ level |-> SearchParameters.ks_decomposition_level_count,
                               log2_base |-> SearchParameters.ks_decomposition_base_log ],
                         description |-> "ks[0]" ] >>,
                bootstrap_keys |->
                    << [ identifier |-> 0,
                         input_key |-> small,
                         output_key |-> big,
                         br_decomposition_parameter |->
                             [ level |-> SearchParameters.br_decomposition_level_count,
                               log2_base |-> SearchParameters.br_decomposition_base_log ],
                         description |-> "pbs[0]" ] >>,
                conversion_keyswitch_keys |-> << >>,
                circuit_bootstrap_keys |-> << >>,
                private_functional_packing_keys |-> << >> ],
          instructions_keys |->
              [i \in 1 .. n |->
                  [ input_key |-> 0,
                    tlu_keyswitch_key |-> 0,
                    tlu_bootstrap_key |-> 0,
                    tlu_circuit_bootstrap_key |-> NO_KEY_ID,
                    tlu_private_functional_packing_key |-> NO_KEY_ID,
                    output_key |-> 0,
                    extra_conversion_keys |-> << >> ]],
          crt_decomposition |-> << >>,
          complexity |-> SearchParameters.complexity,
          p_error |-> p,
          global_p_error |-> p,
          is_feasible |-> TRUE,
          error_msg |-> "" ]

\* multi_parameters::optimize_generic::optimize(...): the infeasible result
\* or a feasible one with an admissible error probability.
multi_optimize_generic(options, n) ==
    {multi_no_solution} \cup
    {multi_solution(p, n) : p \in admissible_p_errors(options)}

\* Mutant of OptimizeMulti: the solve tags every operator of the graph as an
\* output before it searches.
OptimizeMultiTagging(options) ==
    /\ ~aborted
    /\ \E circuit_sol \in multi_optimize_generic(options, dag_len) :
          returned' = [ fn |-> "optimize_multi",
                        value |-> << circuit_solution_from(circuit_sol) >>,
                        origin |-> IF circuit_sol.is_feasible THEN "found" ELSE "none",
                        options |-> << options >>,
                        arg |-> << >> ]
    /\ output_tags' = [i \in 1 .. dag_len |-> TRUE]
    /\ UNCHANGED << operators, compositions, edits, aborted, index >>

\* Dag::optimize_multi(options): the result of the search, converted.
OptimizeMulti(options) ==
    /\ ~aborted
    /\ \E circuit_sol \in multi_optimize_generic(options, dag_len) :
          returned' = [ fn |-> "optimize_multi",
                        value |-> << circuit_solution_from(circuit_sol) >>,
                        origin |-> IF circuit_sol.is_feasible THEN "found" ELSE "none",
                        options |-> << options >>,
                        arg |-> << >> ]
    /\ UNCHANGED edits
    /\ GraphUnchanged

\* ----------------------------------------------------- textual dump

\* What derive(Debug) prints for a struct: its name, then each field in
\* declaration order as name and printed value.
Debug_struct(name, fields, printed) ==
    [ struct |-> name,
      fields |-> [i \in 1 .. Len(fields) |->
                     [ name |-> fields[i], value |-> printed[fields[i]] ]] ]

\* What Debug prints for a Vec: the printed items in order.
Debug_list(list, fmt(_)) == [i \in 1 .. Len(list) |-> fmt(list[i])]

\* What Debug prints for an f64 and for a String.
Debug_f64(x) == << "f64", x >>
Debug_str(x) == << "str", x >>

\* derive(Debug) of the decomposition parameters and of the keys.
BrDecompositionParameters_fmt(v) ==
    Debug_struct("BrDecompositionParameters", << "level", "log2_base" >>, v)
KsDecompositionParameters_fmt(v) ==
    Debug_struct("KsDecompositionParameters", << "level", "log2_base" >>, v)
SecretLweKey_fmt(v) ==
    Debug_struct("SecretLweKey",
                 << "identifier", "polynomial_size", "glwe_dimension",
                    "description" >>,
                 [v EXCEPT !.description = Debug_str(@)])
BootstrapKey_fmt(v) ==
    Debug_struct("BootstrapKey",
                 << "identifier", "input_key", "output_key",
                    "br_decomposition_parameter", "description" >>,
                 [v EXCEPT !.input_key = SecretLweKey_fmt(@),
                           !.output_key = SecretLweKey_fmt(@),
                           !.br_decomposition_parameter =
                               BrDecompositionParameters_fmt(@),
                           !.description = Debug_str(@)])
KeySwitchKey_fmt(v) ==
    Debug_struct("KeySwitchKey",
                 << "identifier", "input_key", "output_key",
                    "ks_decomposition_parameter", "description" >>,
                 [v EXCEPT !.input_key = SecretLweKey_fmt(@),
                           !.output_key = SecretLweKey_fmt(@),
                           !.ks_decomposition_parameter =
                               KsDecompositionParameters_fmt(@),
                           !.description = Debug_str(@)])
ConversionKeySwitchKey_fmt(v) ==
    Debug_struct("ConversionKeySwitchKey",
                 << "identifier", "input_key", "output_key",
                    "ks_decomposition_parameter", "fast_keyswitch",
                    "description" >>,
                 [v EXCEPT !.input_key = SecretLweKey_fmt(@),
                           !.output_key = SecretLweKey_fmt(@),
                           !.ks_decomposition_parameter =
                               KsDecompositionParameters_fmt(@),
                           !.description = Debug_str(@)])
CircuitBoostrapKey_fmt(v) ==
    Debug_struct("CircuitBoostrapKey",
                 << "identifier", "representation_key",
                    "br_decomposition_parameter", "description" >>,
                 [v EXCEPT !.representation_key = SecretLweKey_fmt(@),
                           !.br_decomposition_parameter =
                               BrDecompositionParameters_fmt(@),
                           !.description = Debug_str(@)])
PrivateFunctionalPackingBoostrapKey_fmt(v) ==
    Debug_struct("PrivateFunctionalPackingBoostrapKey",
                 << "identifier", "representation_key",
                    "br_decomposition_parameter", "description" >>,
                 [v EXCEPT !.representation_key = SecretLweKey_fmt(@),
                           !.br_decomposition_parameter =
                               BrDecompositionParameters_fmt(@),
                           !.description = Debug_str(@)])

\* derive(Debug) of ffi::CircuitKeys.
CircuitKeys_fmt(v) ==
    Debug_struct("CircuitKeys",
                 << "secret_keys", "keyswitch_keys", "bootstrap_keys",
                    "conversion_keyswitch_keys", "circuit_bootstrap_keys",
                    "private_functional_packing_keys" >>,
                 [ secret_keys |-> Debug_list(v.secret_keys, SecretLweKey_fmt),
                   keyswitch_keys |->
                       Debug_list(v.keyswitch_keys, KeySwitchKey_fmt),
                   bootstrap_keys |->
                       Debug_list(v.bootstrap_keys, BootstrapKey_fmt),
                   conversion_keyswitch_keys |->
                       Debug_list(v.conversion_keyswitch_keys,
                                  ConversionKeySwitchKey_fmt),
                   circuit_bootstrap_keys |->
                       Debug_list(v.circuit_bootstrap_keys,
                                  CircuitBoostrapKey_fmt),
                   private_functional_packing_keys |->
                       Debug_list(v.private_functional_packing_keys,
                                  PrivateFunctionalPackingBoostrapKey_fmt) ])

\* derive(Debug) of ffi::InstructionKeys.
InstructionKeys_fmt(v) ==
    Debug_struct("InstructionKeys",
                 << "input_key", "tlu_keyswitch_key", "tlu_bootstrap_key",
                    "tlu_circuit_bootstrap_key",
                    "tlu_private_functional_packing_key", "output_key",
                    "extra_conversion_keys" >>,
                 v)

\* ffi::CircuitSolution::dump: format!("{self:#?}").
dump(self) ==
    Debug_struct("CircuitSolution",
                 << "circuit_keys", "instructions_keys", "crt_decomposition",
                    "complexity", "p_error", "global_p_error", "is_feasible",
                    "error_msg" >>,
                 [ circuit_keys |-> CircuitKeys_fmt(self.circuit_keys),
                   instructions_keys |->
                       Debug_list(self.instructions_keys, InstructionKeys_fmt),
                   crt_decomposition |-> self.crt_decomposition,
                   complexity |-> Debug_f64(self.complexity),
                   p_error |-> Debug_f64(self.p_error),
                   global_p_error |-> Debug_f64(self.global_p_error),
                   is_feasible |-> self.is_feasible,
                   error_msg |-> Debug_str(self.error_msg) ])

\* Mutant of short_dump: the per-instruction key table left in.
short_dump_full(self) == dump(self)

\* ffi::CircuitSolution::short_dump: the dump of a clone with the
\* per-instruction key table emptied.
short_dump(self) ==
    LET new == [self EXCEPT !.instructions_keys = << >>]
    IN  dump(new)

\* The calls after which the caller holds a CircuitSolution, and the dumps
\* of it.
DumpCalls == {"CircuitSolution::dump", "CircuitSolution::short_dump"}

\* The CircuitSolution the caller holds: the one a call handed over, or the
\* one a dump was taken of.
held_circuit_solution ==
    IF returned.fn \in DumpCalls THEN returned.arg[1] ELSE returned.value[1]

\* self.dump() on the CircuitSolution the caller holds.
CircuitSolutionDump ==
    /\ ~aborted
    /\ returned.fn \in {"convert_to_circuit_solution", "optimize_multi"} \cup DumpCalls
    /\ returned' = [ fn |-> "CircuitSolution::dump",
                     value |-> << dump(held_circuit_solution) >>,
                     origin |-> returned.origin,
                     options |-> returned.options,
                     arg |-> << held_circuit_solution >> ]
    /\ UNCHANGED edits
    /\ GraphUnchanged

\* self.short_dump() on the CircuitSolution the caller holds.
CircuitSolutionShortDump ==
    /\ ~aborted
    /\ returned.fn \in {"convert_to_circuit_solution", "optimize_multi"} \cup DumpCalls
    /\ returned' = [ fn |-> "CircuitSolution::short_dump",
                     value |-> << short_dump(held_circuit_solution) >>,
                     origin |-> returned.origin,
                     options |-> returned.options,
                     arg |-> << held_circuit_solution >> ]
    /\ UNCHANGED edits
    /\ GraphUnchanged

\* ------------------------------------------------- cost model (contract)

\* The variances a cost model reports, 0, 1.0 and NaN among them.
Variances == {0, ONE, NaN, 3}

\* The decomposition caches of caches_from(options), for one choice of
\* polynomial size, GLWE dimension and LWE dimension: the bootstrap levels
\* the cost model supports, each with its base log and the variance of the
\* bootstrap.
PersistDecompCaches ==
    UNION { [levels -> [log2_base : 1 .. MaxParam, variance : Variances]] :
               levels \in SUBSET (1 .. MaxParam) }

\* decomposition::cmux::get_noise_br(cache, ..., pbs_level,
\* Some(pbs_log2_base)): the variance of the level when its base log is the
\* one asked for, PbsBaseLogNotFound when it is another, PbsLevelNotFound
\* when the level is not supported.
cmux_get_noise_br(cache, pbs_level, pbs_log2_base) ==
    IF pbs_level \notin DOMAIN cache
    THEN [ ok |-> << >>, err |-> << "PbsLevelNotFound" >> ]
    ELSE IF cache[pbs_level].log2_base # pbs_log2_base
         THEN [ ok |-> << >>, err |-> << "PbsBaseLogNotFound" >> ]
         ELSE [ ok |-> << cache[pbs_level].variance >>, err |-> << >> ]

\* Mutant of get_noise_br: 1.0 handed back for a level that is not found.
get_noise_br_sentinel(result) ==
    IF result.ok # << >>
    THEN [ value |-> result.ok, panic |-> << >> ]
    ELSE IF result.err = << "PbsBaseLogNotFound" >>
         THEN [ value |-> << >>, panic |-> << "pbs base log didn't match" >> ]
         ELSE [ value |-> << ONE >>, panic |-> << >> ]

\* The match of get_noise_br on the result of the cost model: the variance,
\* or a panic with the message of the error.
get_noise_br(result) ==
    IF result.ok # << >>
    THEN [ value |-> result.ok, panic |-> << >> ]
    ELSE IF result.err = << "PbsBaseLogNotFound" >>
         THEN [ value |-> << >>, panic |-> << "pbs base log didn't match" >> ]
         ELSE [ value |-> << >>, panic |-> << "pbs level not found" >> ]

\* get_noise_br(options, log2_polynomial_size, glwe_dimension, lwe_dim,
\* pbs_level, pbs_log2_base); a panic ends the process with its message.
GetNoiseBr(cache, pbs_level, pbs_log2_base) ==
    /\ ~aborted
    /\ LET out == get_noise_br(cmux_get_noise_br(cache, pbs_level, pbs_log2_base))
       IN  /\ returned' = [ fn |-> "get_noise_br",
                            value |-> out.value,
                            origin |-> IF out.panic = << >>
                                       THEN "found" ELSE out.panic[1],
                            options |-> << >>,
                            arg |-> << [ cache |-> cache,
                                         pbs_level |-> pbs_level,
                                         pbs_log2_base |-> pbs_log2_base ] >> ]
           /\ aborted' = (out.panic # << >>)
    /\ UNCHANGED << operators, output_tags, compositions, edits, index >>

\* ------------------------------------------------- caller-written values

\* The u64 fields of ffi::DagSolution.
U64Fields ==
    { "input_lwe_dimension", "internal_ks_output_lwe_dimension",
      "ks_decomposition_level_count", "ks_decomposition_base_log",
      "glwe_polynomial_size", "glwe_dimension",
      "br_decomposition_level_count", "br_decomposition_base_log",
      "cb_decomposition_level_count", "cb_decomposition_base_log",
      "pp_decomposition_level_count", "pp_decomposition_base_log" }

\* The f64 fields of ffi::DagSolution.
F64Fields == {"complexity", "noise_max", "p_error", "global_p_error"}

\* The caller builds a DagSolution of its own: every field is public and the
\* struct derives Default.
NewDagSolution ==
    /\ ~aborted
    /\ returned' = [ fn |-> "caller",
                     value |-> << DefaultDagSolution >>,
                     origin |-> "caller",
                     options |-> << >>,
                     arg |-> << >> ]
    /\ edits' = 0
    /\ GraphUnchanged

\* The caller overwrites one field of the DagSolution it built.
SetDagSolutionField ==
    /\ ~aborted
    /\ returned.fn = "caller"
    /\ edits < MaxEdits
    /\ \/ \E f \in U64Fields, v \in 1 .. MaxParam :
             returned' = [returned EXCEPT !.value[1][f] = v]
       \/ \E f \in F64Fields, v \in F64s :
             returned' = [returned EXCEPT !.value[1][f] = v]
       \/ returned' = [returned EXCEPT !.value[1].use_wop_pbs = TRUE]
       \/ returned' = [returned EXCEPT !.value[1].crt_decomposition = << 2, 3 >>]
    /\ edits' = edits + 1
    /\ GraphUnchanged

\* ------------------------------------------- solution conversion, back

\* The width of a u64, cut to 4 bits: dimensions run from 0 to 15.
U64Bits == 4
U64Modulus == 2 ^ U64Bits

\* a * b on u64: the product when it fits; when it does not, a panic in a
\* build with overflow checks (no value) and the wrapped product in a build
\* without.
u64_mul(a, b) ==
    IF a * b < U64Modulus
    THEN {<< a * b >>}
    ELSE {<< >>, << (a * b) % U64Modulus >>}

\* What From<&ffi::CircuitSolution> for ffi::DagSolution asserts and indexes:
\* two secret keys, a first keyswitch key and a first bootstrap key, and
\* with a circuit bootstrap key exactly one of it and one packing key.
circuit_solution_checks(sol) ==
    /\ Len(sol.circuit_keys.secret_keys) = 2
    /\ sol.circuit_keys.keyswitch_keys # << >>
    /\ sol.circuit_keys.bootstrap_keys # << >>
    /\ sol.circuit_keys.circuit_bootstrap_keys # << >> =>
          /\ Len(sol.circuit_keys.circuit_bootstrap_keys) = 1
          /\ Len(sol.circuit_keys.private_functional_packing_keys) = 1

\* Mutant of dag_solution_from_circuit_solution: the decomposition of the
\* packing key read from the circuit bootstrap key.
dag_solution_from_circuit_solution_cb_twice(sol, input_lwe_dimension, internal_ks_output_lwe_dimension) ==
    LET keys == sol.circuit_keys
        big_key == keys.secret_keys[1]
        keyswitch_key == keys.keyswitch_keys[1]
        bootstrap_key == keys.bootstrap_keys[1]
        use_wop_pbs == keys.circuit_bootstrap_keys # << >>
    IN  [ input_lwe_dimension |-> input_lwe_dimension,
          internal_ks_output_lwe_dimension |-> internal_ks_output_lwe_dimension,
          ks_decomposition_level_count |->
              keyswitch_key.ks_decomposition_parameter.level,
          ks_decomposition_base_log |->
              keyswitch_key.ks_decomposition_parameter.log2_base,
          glwe_polynomial_size |-> big_key.polynomial_size,
          glwe_dimension |-> big_key.glwe_dimension,
          br_decomposition_level_count |->
              bootstrap_key.br_decomposition_parameter.level,
          br_decomposition_base_log |->
              bootstrap_key.br_decomposition_parameter.log2_base,
          complexity |-> sol.complexity,
          noise_max |-> NaN,
          p_error |-> sol.p_error,
          global_p_error |-> sol.global_p_error,
          use_wop_pbs |-> use_wop_pbs,
          cb_decomposition_level_count |->
              IF use_wop_pbs
              THEN keys.circuit_bootstrap_keys[1].br_decomposition_parameter.level
              ELSE 0,
          cb_decomposition_base_log |->
              IF use_wop_pbs
              THEN keys.circuit_bootstrap_keys[1].br_decomposition_parameter.log2_base
              ELSE 0,
          pp_decomposition_level_count |->
              IF use_wop_pbs
              THEN keys.circuit_bootstrap_keys[1].br_decomposition_parameter.level
              ELSE 0,
          pp_decomposition_base_log |->
              IF use_wop_pbs
              THEN keys.circuit_bootstrap_keys[1].br_decomposition_parameter.log2_base
              ELSE 0,
          crt_decomposition |-> sol.crt_decomposition ]

\* impl From<&ffi::CircuitSolution> for ffi::DagSolution, past its checks and
\* with the two products computed.
dag_solution_from_circuit_solution(sol, input_lwe_dimension, internal_ks_output_lwe_dimension) ==
    LET keys == sol.circuit_keys
        big_key == keys.secret_keys[1]
        keyswitch_key == keys.keyswitch_keys[1]
        bootstrap_key == keys.bootstrap_keys[1]
        use_wop_pbs == keys.circuit_bootstrap_keys # << >>
    IN  [ input_lwe_dimension |-> input_lwe_dimension,
          internal_ks_output_lwe_dimension |-> internal_ks_output_lwe_dimension,
          ks_decomposition_level_count |->
              keyswitch_key.ks_decomposition_parameter.level,
          ks_decomposition_base_log |->
              keyswitch_key.ks_decomposition_parameter.log2_base,
          glwe_polynomial_size |-> big_key.polynomial_size,
          glwe_dimension |-> big_key.glwe_dimension,
          br_decomposition_level_count |->
              bootstrap_key.br_decomposition_parameter.level,
          br_decomposition_base_log |->
              bootstrap_key.br_decomposition_parameter.log2_base,
          complexity |-> sol.complexity,
          noise_max |-> NaN,
          p_error |-> sol.p_error,
          global_p_error |-> sol.global_p_error,
          use_wop_pbs |-> use_wop_pbs,
          cb_decomposition_level_count |->
              IF use_wop_pbs
              THEN keys.circuit_bootstrap_keys[1].br_decomposition_parameter.level
              ELSE 0,
          cb_decomposition_base_log |->
              IF use_wop_pbs
              THEN keys.circuit_bootstrap_keys[1].br_decomposition_parameter.log2_base
              ELSE 0,
          pp_decomposition_level_count |->
              IF use_wop_pbs
              THEN keys.private_functional_packing_keys[1]
                       .br_decomposition_parameter.level
              ELSE 0,
          pp_decomposition_base_log |->
              IF use_wop_pbs
              THEN keys.private_functional_packing_keys[1]
                       .br_decomposition_parameter.log2_base
              ELSE 0,
          crt_decomposition |-> sol.crt_decomposition ]

\* The outcomes of the conversion of sol: a DagSolution, or no value when a
\* check fails or a product panics.
dag_solution_from_circuit_solution_outcomes(sol) ==
    IF ~circuit_solution_checks(sol)
    THEN {<< >>}
    ELSE LET big_key == sol.circuit_keys.secret_keys[1]
             small_key == sol.circuit_keys.secret_keys[2]
         IN  { IF big = << >> \/ small = << >>
               THEN << >>
               ELSE << dag_solution_from_circuit_solution(sol, big[1], small[1]) >> :
                  big \in u64_mul(big_key.polynomial_size, big_key.glwe_dimension),
                  small \in u64_mul(small_key.polynomial_size,
                                    small_key.glwe_dimension) }

\* ffi::DagSolution::from(&sol) on the CircuitSolution the caller holds; the
\* argument and what it was converted from are kept.
DagSolutionFromCircuitSolution ==
    /\ ~aborted
    /\ returned.fn \in {"convert_to_circuit_solution", "optimize_multi"}
    /\ \E outcome \in dag_solution_from_circuit_solution_outcomes(returned.value[1]) :
          /\ returned' = [returned EXCEPT
                             !.fn = "DagSolution::from",
                             !.arg = returned.value \o returned.arg,
                             !.value = outcome]
          /\ aborted' = (outcome = << >>)
    /\ UNCHANGED << operators, output_tags, compositions, edits, index >>

\* The DagSolutions a caller writes for a conversion: dimensions whose
\* product fits a u64 and dimensions whose product does not.
WrittenDagSolutions ==
    { [DefaultDagSolution EXCEPT
          !.input_lwe_dimension = i,
          !.glwe_polynomial_size = n,
          !.glwe_dimension = k,
          !.internal_ks_output_lwe_dimension = 3,
          !.use_wop_pbs = w,
          !.cb_decomposition_level_count = c,
          !.pp_decomposition_base_log = c + 1,
          !.noise_max = 1,
          !.p_error = p,
          !.crt_decomposition = IF w THEN << 2, 3 >> ELSE << >>] :
        i \in {0, 2, 4}, n \in {2, 8}, k \in {1, 2}, w \in BOOLEAN,
        c \in 0 .. MaxParam, p \in {0, ONE, NaN} }

\* The caller writes a DagSolution, every field at once.
WriteDagSolution(d) ==
    /\ ~aborted
    /\ returned' = [ fn |-> "caller",
                     value |-> << d >>,
                     origin |-> "caller",
                     options |-> << >>,
                     arg |-> << >> ]
    /\ UNCHANGED edits
    /\ GraphUnchanged

\* ------------------------------------------------------ source locations

\* The longest string a caller passes.
MaxLocationLen == 5

\* The characters of a location string: a letter of a file name, the
\* separator, two digits and a sign.
Chars == {"f", ":", "1", "2", "+"}

\* The strings a caller passes, as sequences of characters.
LocationStrings == UNION {[1 .. n -> Chars] : n \in 0 .. MaxLocationLen}

\* string.split(':').collect(): the pieces between the separators, empty
\* pieces included; a string without separator is one piece.
RECURSIVE split(_)
split(string) ==
    IF \A i \in 1 .. Len(string) : string[i] # ":"
    THEN << string >>
    ELSE LET i == CHOOSE j \in 1 .. Len(string) :
                     /\ string[j] = ":"
                     /\ \A k \in 1 .. (j - 1) : string[k] # ":"
         IN  << SubSeq(string, 1, i - 1) >>
                \o split(SubSeq(string, i + 1, Len(string)))

\* The value of a decimal digit.
DigitChars == << "0", "1", "2", "3", "4", "5", "6", "7", "8", "9" >>
digit_value(c) == (CHOOSE i \in 1 .. 10 : DigitChars[i] = c) - 1
is_digit(c) == \E i \in 1 .. 10 : DigitChars[i] = c

\* The number a sequence of digits writes.
RECURSIVE digits_value(_)
digits_value(digits) ==
    IF digits = << >>
    THEN 0
    ELSE digits_value(SubSeq(digits, 1, Len(digits) - 1)) * 10
            + digit_value(digits[Len(digits)])

\* str::parse to the unsigned integer of a line or column: Ok for one or
\* more digits after an optional "+" when the number fits the integer, Err
\* otherwise.
parse(part) ==
    LET digits == IF part # << >> /\ part[1] = "+" THEN Tail(part) ELSE part
    IN  IF \/ digits = << >>
           \/ \E i \in 1 .. Len(digits) : ~is_digit(digits[i])
        THEN << >>
        ELSE IF digits_value(digits) < U64Modulus
             THEN << digits_value(digits) >>
             ELSE << >>

\* operator::Location::Unknown.
location_unknown ==
    [ variant |-> "Unknown", file |-> << >>, line |-> << >>, column |-> << >> ]

\* Mutant of location_from_string: a line or column that does not parse
\* counts as 0.
location_from_string_or_zero(string) ==
    LET location == split(string)
        or_zero(part) == IF parse(part) = << >> THEN << 0 >> ELSE parse(part)
    IN  IF Len(location) = 1
        THEN << [ variant |-> "File", file |-> << location[1] >>,
                  line |-> << >>, column |-> << >> ] >>
        ELSE IF Len(location) = 2
        THEN << [ variant |-> "Line", file |-> << location[1] >>,
                  line |-> or_zero(location[2]), column |-> << >> ] >>
        ELSE IF Len(location) = 3
        THEN << [ variant |-> "LineColumn", file |-> << location[1] >>,
                  line |-> or_zero(location[2]),
                  column |-> or_zero(location[3]) ] >>
        ELSE << location_unknown >>

\* location_from_string(string): the location, or no value when an unwrap()
\* of a parse panics.
location_from_string(string) ==
    LET location == split(string)
    IN  IF Len(location) = 1
        THEN << [ variant |-> "File", file |-> << location[1] >>,
                  line |-> << >>, column |-> << >> ] >>
        ELSE IF Len(location) = 2
        THEN IF parse(location[2]) = << >>
             THEN << >>
             ELSE << [ variant |-> "Line", file |-> << location[1] >>,
                       line |-> parse(location[2]), column |-> << >> ] >>
        ELSE IF Len(location) = 3
        THEN IF parse(location[2]) = << >> \/ parse(location[3]) = << >>
             THEN << >>
             ELSE << [ variant |-> "LineColumn", file |-> << location[1] >>,
                       line |-> parse(location[2]),
                       column |-> parse(location[3]) ] >>
        ELSE << location_unknown >>

\* location_from_string(string) called; a panic ends the process.
LocationFromString(string) ==
    /\ ~aborted
    /\ returned' = [ fn |-> "location_from_string",
                     value |-> location_from_string(string),
                     origin |-> "none",
                     options |-> << >>,
                     arg |-> << string >> ]
    /\ aborted' = (location_from_string(string) = << >>)
    /\ UNCHANGED << operators, output_tags, compositions, edits, index >>

\* location_unknown() called.
LocationUnknown ==
    /\ ~aborted
    /\ returned' = [ fn |-> "location_unknown",
                     value |-> << location_unknown >>,
                     origin |-> "none",
                     options |-> << >>,
                     arg |-> << >> ]
    /\ UNCHANGED edits
    /\ GraphUnchanged

\* ------------------------------------------------ search-space restriction

\* The values a discrete field of a candidate takes.
FieldValues == {1, 2}

\* The PartitionIndex values a search queries with.
Partitions == {0, 1}

\* parameters::GlweParameters, MacroParameters and the Br / Ks
\* DecompositionParameters a search proposes.
GlweParametersSet ==
    [ log2_polynomial_size : FieldValues, glwe_dimension : FieldValues ]
MacroParametersSet == [ glwe_params : GlweParametersSet, internal_dim : FieldValues ]
DecompositionParametersSet == [ level : FieldValues, log2_base : FieldValues ]

\* Vec::contains
contains(list, v) == \E i \in 1 .. Len(list) : list[i] = v

\* Mutant of range_restriction_transmute: the two pbs lists exchanged, as a
\* struct declared in another field order would be read.
range_restriction_transmute_reordered(self) ==
    [ glwe_log_polynomial_sizes |-> self.glwe_log_polynomial_sizes,
      glwe_dimensions |-> self.glwe_dimensions,
      internal_lwe_dimensions |-> self.internal_lwe_dimensions,
      pbs_level_count |-> self.pbs_base_log,
      pbs_base_log |-> self.pbs_level_count,
      ks_level_count |-> self.ks_level_count,
      ks_base_log |-> self.ks_base_log ]

\* std::mem::transmute between ffi::RangeRestriction and the crate's
\* RangeRestriction: the seven lists, read field for field.
range_restriction_transmute(self) ==
    [ glwe_log_polynomial_sizes |-> self.glwe_log_polynomial_sizes,
      glwe_dimensions |-> self.glwe_dimensions,
      internal_lwe_dimensions |-> self.internal_lwe_dimensions,
      pbs_level_count |-> self.pbs_level_count,
      pbs_base_log |-> self.pbs_base_log,
      ks_level_count |-> self.ks_level_count,
      ks_base_log |-> self.ks_base_log ]

\* The crate's RangeRestriction as a SearchSpaceRestriction: each query is
\* the membership of the candidate's discrete fields in the allowed lists.
RangeRestriction_is_available_glwe(r, partition, glwe_params) ==
    /\ contains(r.glwe_log_polynomial_sizes, glwe_params.log2_polynomial_size)
    /\ contains(r.glwe_dimensions, glwe_params.glwe_dimension)

RangeRestriction_is_available_macro(r, partition, macro_parameters) ==
    contains(r.internal_lwe_dimensions, macro_parameters.internal_dim)

RangeRestriction_is_available_micro_pbs(r, partition, macro_parameters, pbs_parameters) ==
    /\ contains(r.pbs_level_count, pbs_parameters.level)
    /\ contains(r.pbs_base_log, pbs_parameters.log2_base)

RangeRestriction_is_available_micro_ks(r, from_partition, from_macro, to_partition, to_macro, ks_parameters) ==
    /\ contains(r.ks_level_count, ks_parameters.level)
    /\ contains(r.ks_base_log, ks_parameters.log2_base)

RangeRestriction_is_available_micro_fks(r, from_partition, from_macro, to_partition, to_macro, ks_parameters) ==
    /\ contains(r.ks_level_count, ks_parameters.level)
    /\ contains(r.ks_base_log, ks_parameters.log2_base)

\* impl SearchSpaceRestriction for ffi::RangeRestriction: each query is
\* handed to the crate's RangeRestriction behind the transmuted reference.
range_is_available_glwe(self, partition, glwe_params) ==
    RangeRestriction_is_available_glwe(range_restriction_transmute(self),
                                       partition, glwe_params)

range_is_available_macro(self, partition, macro_parameters) ==
    RangeRestriction_is_available_macro(range_restriction_transmute(self),
                                        partition, macro_parameters)

\* Mutant of range_is_available_micro_pbs: the answer of the crate negated.
range_is_available_micro_pbs_negated(self, partition, macro_parameters, pbs_parameters) ==
    ~RangeRestriction_is_available_micro_pbs(range_restriction_transmute(self),
                                             partition, macro_parameters,
                                             pbs_parameters)

range_is_available_micro_pbs(self, partition, macro_parameters, pbs_parameters) ==
    RangeRestriction_is_available_micro_pbs(range_restriction_transmute(self),
                                            partition, macro_parameters,
                                            pbs_parameters)

range_is_available_micro_ks(self, from_partition, from_macro, to_partition, to_macro, ks_parameters) ==
    RangeRestriction_is_available_micro_ks(range_restriction_transmute(self),
                                           from_partition, from_macro,
                                           to_partition, to_macro, ks_parameters)

range_is_available_micro_fks(self, from_partition, from_macro, to_partition, to_macro, ks_parameters) ==
    RangeRestriction_is_available_micro_fks(range_restriction_transmute(self),
                                            from_partition, from_macro,
                                            to_partition, to_macro, ks_parameters)

\* 2^log2_polynomial_size
polynomial_size_of(glwe_params) ==
    IF glwe_params.log2_polynomial_size = 0 THEN 1
    ELSE IF glwe_params.log2_polynomial_size = 1 THEN 2
    ELSE IF glwe_params.log2_polynomial_size = 2 THEN 4 ELSE 8

\* The LWE dimension of a ciphertext extracted from a GLWE one.
sample_extract_lwe_dimension(glwe_params) ==
    glwe_params.glwe_dimension * polynomial_size_of(glwe_params)

\* Mutant of keyset_restriction_transmute: the bootstrap keys read with
\* level count and base log exchanged.
keyset_restriction_transmute_reordered(self) ==
    [ info |->
        [ lwe_secret_keys |-> self.info.lwe_secret_keys,
          lwe_bootstrap_keys |->
              [i \in 1 .. Len(self.info.lwe_bootstrap_keys) |->
                  [ level_count |-> self.info.lwe_bootstrap_keys[i].base_log,
                    base_log |-> self.info.lwe_bootstrap_keys[i].level_count,
                    glwe_dimension |-> self.info.lwe_bootstrap_keys[i].glwe_dimension,
                    polynomial_size |->
                        self.info.lwe_bootstrap_keys[i].polynomial_size,
                    input_lwe_dimension |->
                        self.info.lwe_bootstrap_keys[i].input_lwe_dimension ]],
          lwe_keyswitch_keys |-> self.info.lwe_keyswitch_keys ] ]

\* std::mem::transmute between ffi::KeysetRestriction and the crate's
\* KeysetRestriction: the keyset info, read field for field.
keyset_restriction_transmute(self) ==
    [ info |->
        [ lwe_secret_keys |->
              [i \in 1 .. Len(self.info.lwe_secret_keys) |->
                  [ lwe_dimension |-> self.info.lwe_secret_keys[i].lwe_dimension ]],
          lwe_bootstrap_keys |->
              [i \in 1 .. Len(self.info.lwe_bootstrap_keys) |->
                  [ level_count |-> self.info.lwe_bootstrap_keys[i].level_count,
                    base_log |-> self.info.lwe_bootstrap_keys[i].base_log,
                    glwe_dimension |-> self.info.lwe_bootstrap_keys[i].glwe_dimension,
                    polynomial_size |->
                        self.info.lwe_bootstrap_keys[i].polynomial_size,
                    input_lwe_dimension |->
                        self.info.lwe_bootstrap_keys[i].input_lwe_dimension ]],
          lwe_keyswitch_keys |->
              [i \in 1 .. Len(self.info.lwe_keyswitch_keys) |->
                  [ level_count |-> self.info.lwe_keyswitch_keys[i].level_count,
                    base_log |-> self.info.lwe_keyswitch_keys[i].base_log,
                    input_lwe_dimension |->
                        self.info.lwe_keyswitch_keys[i].input_lwe_dimension,
                    output_lwe_dimension |->
                        self.info.lwe_keyswitch_keys[i].output_lwe_dimension ]] ] ]

\* The crate's KeysetRestriction as a SearchSpaceRestriction: a candidate is
\* available when a key of the keyset info matches it.
KeysetRestriction_is_available_glwe(k, partition, glwe_params) ==
    \E i \in 1 .. Len(k.info.lwe_bootstrap_keys) :
        /\ k.info.lwe_bootstrap_keys[i].glwe_dimension = glwe_params.glwe_dimension
        /\ k.info.lwe_bootstrap_keys[i].polynomial_size
              = polynomial_size_of(glwe_params)

KeysetRestriction_is_available_macro(k, partition, macro_parameters) ==
    \E i \in 1 .. Len(k.info.lwe_secret_keys) :
        k.info.lwe_secret_keys[i].lwe_dimension = macro_parameters.internal_dim

KeysetRestriction_is_available_micro_pbs(k, partition, macro_parameters, pbs_parameters) ==
    \E i \in 1 .. Len(k.info.lwe_bootstrap_keys) :
        /\ k.info.lwe_bootstrap_keys[i].level_count = pbs_parameters.level
        /\ k.info.lwe_bootstrap_keys[i].base_log = pbs_parameters.log2_base
        /\ k.info.lwe_bootstrap_keys[i].glwe_dimension
              = macro_parameters.glwe_params.glwe_dimension
        /\ k.info.lwe_bootstrap_keys[i].polynomial_size
              = polynomial_size_of(macro_parameters.glwe_params)
        /\ k.info.lwe_bootstrap_keys[i].input_lwe_dimension
              = macro_parameters.internal_dim

KeysetRestriction_is_available_micro_ks(k, from_partition, from_macro, to_partition, to_macro, ks_parameters) ==
    \E i \in 1 .. Len(k.info.lwe_keyswitch_keys) :
        /\ k.info.lwe_keyswitch_keys[i].level_count = ks_parameters.level
        /\ k.info.lwe_keyswitch_keys[i].base_log = ks_parameters.log2_base
        /\ k.info.lwe_keyswitch_keys[i].input_lwe_dimension
              = sample_extract_lwe_dimension(from_macro.glwe_params)
        /\ k.info.lwe_keyswitch_keys[i].output_lwe_dimension = to_macro.internal_dim

KeysetRestriction_is_available_micro_fks(k, from_partition, from_macro, to_partition, to_macro, ks_parameters) ==
    \E i \in 1 .. Len(k.info.lwe_keyswitch_keys) :
        /\ k.info.lwe_keyswitch_keys[i].level_count = ks_parameters.level
        /\ k.info.lwe_keyswitch_keys[i].base_log = ks_parameters.log2_base
        /\ k.info.lwe_keyswitch_keys[i].input_lwe_dimension
              = sample_extract_lwe_dimension(from_macro.glwe_params)
        /\ k.info.lwe_keyswitch_keys[i].output_lwe_dimension
              = sample_extract_lwe_dimension(to_macro.glwe_params)

\* impl SearchSpaceRestriction for ffi::KeysetRestriction: each query is
\* handed to the crate's KeysetRestriction behind the transmuted reference.
keyset_is_available_glwe(self, partition, glwe_params) ==
    KeysetRestriction_is_available_glwe(keyset_restriction_transmute(self),
                                        partition, glwe_params)

keyset_is_available_macro(self, partition, macro_parameters) ==
    KeysetRestriction_is_available_macro(keyset_restriction_transmute(self),
                                         partition, macro_parameters)

keyset_is_available_micro_pbs(self, partition, macro_parameters, pbs_parameters) ==
    KeysetRestriction_is_available_micro_pbs(keyset_restriction_transmute(self),
                                             partition, macro_parameters,
                                             pbs_parameters)

keyset_is_available_micro_ks(self, from_partition, from_macro, to_partition, to_macro, ks_parameters) ==
    KeysetRestriction_is_available_micro_ks(keyset_restriction_transmute(self),
                                            from_partition, from_macro,
                                            to_partition, to_macro, ks_parameters)

keyset_is_available_micro_fks(self, from_partition, from_macro, to_partition, to_macro, ks_parameters) ==
    KeysetRestriction_is_available_micro_fks(keyset_restriction_transmute(self),
                                             from_partition, from_macro,
                                             to_partition, to_macro, ks_parameters)

\* One availability query of a search: which of the five it is and its
\* arguments. A query of one partition carries it as from_partition and
\* from_macro; the arguments a query does not take are left at a default.
DefaultMacro ==
    [ glwe_params |-> [ log2_polynomial_size |-> 1, glwe_dimension |-> 1 ],
      internal_dim |-> 1 ]
DefaultDecomposition == [ level |-> 1, log2_base |-> 1 ]

Query(query, from_partition, from_macro, to_partition, to_macro, pbs, ks) ==
    [ query |-> query,
      from_partition |-> from_partition, from_macro |-> from_macro,
      to_partition |-> to_partition, to_macro |-> to_macro,
      pbs_parameters |-> pbs, ks_parameters |-> ks ]

Queries ==
    { Query("glwe", p, [DefaultMacro EXCEPT !.glwe_params = g], 0, DefaultMacro,
            DefaultDecomposition, DefaultDecomposition) :
         p \in Partitions, g \in GlweParametersSet }
    \cup
    { Query("macro", p, m, 0, DefaultMacro, DefaultDecomposition,
            DefaultDecomposition) :
         p \in Partitions, m \in MacroParametersSet }
    \cup
    { Query("micro_pbs", p, m, 0, DefaultMacro, d, DefaultDecomposition) :
         p \in Partitions, m \in MacroParametersSet,
         d \in DecompositionParametersSet }
    \cup
    { Query(q, p, [DefaultMacro EXCEPT !.glwe_params.log2_polynomial_size = n],
            tp,
            [DefaultMacro EXCEPT !.glwe_params.log2_polynomial_size = tn,
                                 !.internal_dim = ti],
            DefaultDecomposition, d) :
         q \in {"micro_ks", "micro_fks"}, p \in Partitions, n \in FieldValues,
         tp \in Partitions, tn \in FieldValues, ti \in FieldValues,
         d \in DecompositionParametersSet }

\* A query put to an ffi::RangeRestriction through the trait.
range_is_available(self, c) ==
    CASE c.query = "glwe" ->
           range_is_available_glwe(self, c.from_partition, c.from_macro.glwe_params)
      [] c.query = "macro" ->
           range_is_available_macro(self, c.from_partition, c.from_macro)
      [] c.query = "micro_pbs" ->
           range_is_available_micro_pbs(self, c.from_partition, c.from_macro,
                                        c.pbs_parameters)
      [] c.query = "micro_ks" ->
           range_is_available_micro_ks(self, c.from_partition, c.from_macro,
                                       c.to_partition, c.to_macro, c.ks_parameters)
      [] c.query = "micro_fks" ->
           range_is_available_micro_fks(self, c.from_partition, c.from_macro,
                                        c.to_partition, c.to_macro, c.ks_parameters)

\* A query put to an ffi::KeysetRestriction through the trait.
keyset_is_available(self, c) ==
    CASE c.query = "glwe" ->
           keyset_is_available_glwe(self, c.from_partition, c.from_macro.glwe_params)
      [] c.query = "macro" ->
           keyset_is_available_macro(self, c.from_partition, c.from_macro)
      [] c.query = "micro_pbs" ->
           keyset_is_available_micro_pbs(self, c.from_partition, c.from_macro,
                                         c.pbs_parameters)
      [] c.query = "micro_ks" ->
           keyset_is_available_micro_ks(self, c.from_partition, c.from_macro,
                                        c.to_partition, c.to_macro, c.ks_parameters)
      [] c.query = "micro_fks" ->
           keyset_is_available_micro_fks(self, c.from_partition, c.from_macro,
                                         c.to_partition, c.to_macro, c.ks_parameters)

\* The crate's NoSearchSpaceRestriction: the full search space.
NoSearchSpaceRestriction_is_available(c) == TRUE

\* The crate's restriction made of two: available when both say so.
Pair_is_available(first, second) == first /\ second

\* Mutant of restriction_in_force: the test for both restrictions left out,
\* the keyset restriction alone deciding when both are supplied.
restriction_in_force_keyset_first(options) ==
    IF options.keyset_restriction # << >>
    THEN [ keyset |-> options.keyset_restriction, range |-> << >> ]
    ELSE IF options.range_restriction # << >>
         THEN [ keyset |-> << >>, range |-> options.range_restriction ]
         ELSE [ keyset |-> << >>, range |-> << >> ]

\* The restriction Dag::optimize_multi hands to the search: the pair when
\* both pointers of Options are set, the one that is set, or
\* NoSearchSpaceRestriction.
restriction_in_force(options) ==
    IF options.keyset_restriction # << >> /\ options.range_restriction # << >>
    THEN [ keyset |-> options.keyset_restriction,
           range |-> options.range_restriction ]
    ELSE IF options.keyset_restriction # << >>
         THEN [ keyset |-> options.keyset_restriction, range |-> << >> ]
         ELSE IF options.range_restriction # << >>
              THEN [ keyset |-> << >>, range |-> options.range_restriction ]
              ELSE [ keyset |-> << >>, range |-> << >> ]

\* A query of the search put to the restriction in force.
restriction_is_available(restriction, c) ==
    IF restriction.keyset # << >> /\ restriction.range # << >>
    THEN Pair_is_available(keyset_is_available(restriction.keyset[1], c),
                           range_is_available(restriction.range[1], c))
    ELSE IF restriction.keyset # << >>
         THEN keyset_is_available(restriction.keyset[1], c)
         ELSE IF restriction.range # << >>
              THEN range_is_available(restriction.range[1], c)
              ELSE NoSearchSpaceRestriction_is_available(c)

\* ------------------------------------------------ restriction interchange

\* A JSON object is the sequence of its members, a JSON array the sequence
\* of its elements; a u64 is written and read back in full.
json_has(object, name) == \E i \in 1 .. Len(object) : object[i].name = name

json_get(object, name) ==
    object[CHOOSE i \in 1 .. Len(object) : object[i].name = name].value

\* The names of the members of a RangeRestriction, in declaration order.
RangeRestrictionFields ==
    << "glwe_log_polynomial_sizes", "glwe_dimensions", "internal_lwe_dimensions",
       "pbs_level_count", "pbs_base_log", "ks_level_count", "ks_base_log" >>

\* serde_json::to_string of the crate's RangeRestriction: one member per
\* field, each the array of the list's values in order.
RangeRestriction_to_json(r) ==
    [i \in 1 .. Len(RangeRestrictionFields) |->
        [ name |-> RangeRestrictionFields[i], value |-> r[RangeRestrictionFields[i]] ]]

\* serde_json::from_str into the crate's RangeRestriction: Err (here << >>)
\* when a member is missing, else the lists read back by name.
RangeRestriction_from_json(input) ==
    IF \A i \in 1 .. Len(RangeRestrictionFields) :
          json_has(input, RangeRestrictionFields[i])
    THEN << [ glwe_log_polynomial_sizes |->
                  json_get(input, "glwe_log_polynomial_sizes"),
              glwe_dimensions |-> json_get(input, "glwe_dimensions"),
              internal_lwe_dimensions |-> json_get(input, "internal_lwe_dimensions"),
              pbs_level_count |-> json_get(input, "pbs_level_count"),
              pbs_base_log |-> json_get(input, "pbs_base_log"),
              ks_level_count |-> json_get(input, "ks_level_count"),
              ks_base_log |-> json_get(input, "ks_base_log") ] >>
    ELSE << >>

\* ffi::RangeRestriction::range_restriction_to_json
range_restriction_to_json(self) ==
    RangeRestriction_to_json(range_restriction_transmute(self))

\* Mutant of range_restriction_transmute_back: the two keyswitch lists
\* exchanged on the way back to the ffi struct.
range_restriction_transmute_back_reordered(v) ==
    [ glwe_log_polynomial_sizes |-> v.glwe_log_polynomial_sizes,
      glwe_dimensions |-> v.glwe_dimensions,
      internal_lwe_dimensions |-> v.internal_lwe_dimensions,
      pbs_level_count |-> v.pbs_level_count,
      pbs_base_log |-> v.pbs_base_log,
      ks_level_count |-> v.ks_base_log,
      ks_base_log |-> v.ks_level_count ]

\* std::mem::transmute::<RangeRestriction, ffi::RangeRestriction> of
\* range_restriction_from_json: the parsed value, read field for field.
range_restriction_transmute_back(v) ==
    [ glwe_log_polynomial_sizes |-> v.glwe_log_polynomial_sizes,
      glwe_dimensions |-> v.glwe_dimensions,
      internal_lwe_dimensions |-> v.internal_lwe_dimensions,
      pbs_level_count |-> v.pbs_level_count,
      pbs_base_log |-> v.pbs_base_log,
      ks_level_count |-> v.ks_level_count,
      ks_base_log |-> v.ks_base_log ]

\* range_restriction_from_json(input): << >> when unwrap() panics on a
\* parse error.
range_restriction_from_json(input) ==
    IF RangeRestriction_from_json(input) = << >>
    THEN << >>
    ELSE << range_restriction_transmute_back(RangeRestriction_from_json(input)[1]) >>

\* A key description written as a JSON object: one member per field.
LweSecretKeyInfoFields == << "lwe_dimension" >>
LweBootstrapKeyInfoFields ==
    << "level_count", "base_log", "glwe_dimension", "polynomial_size",
       "input_lwe_dimension" >>
LweKeyswitchKeyInfoFields ==
    << "level_count", "base_log", "input_lwe_dimension", "output_lwe_dimension" >>

json_of_struct(fields, v) ==
    [i \in 1 .. Len(fields) |-> [ name |-> fields[i], value |-> v[fields[i]] ]]

json_of_structs(fields, list) ==
    [i \in 1 .. Len(list) |-> json_of_struct(fields, list[i])]

json_has_all(object, fields) ==
    \A i \in 1 .. Len(fields) : json_has(object, fields[i])

\* serde_json::to_string of the crate's KeysetRestriction.
KeysetRestriction_to_json(k) ==
    << [ name |-> "info",
         value |->
           << [ name |-> "lwe_secret_keys",
                value |-> json_of_structs(LweSecretKeyInfoFields,
                                          k.info.lwe_secret_keys) ],
              [ name |-> "lwe_bootstrap_keys",
                value |-> json_of_structs(LweBootstrapKeyInfoFields,
                                          k.info.lwe_bootstrap_keys) ],
              [ name |-> "lwe_keyswitch_keys",
                value |-> json_of_structs(LweKeyswitchKeyInfoFields,
                                          k.info.lwe_keyswitch_keys) ] >> ] >>

\* Whether serde_json::from_str finds every member of a KeysetRestriction.
KeysetRestriction_json_ok(input) ==
    /\ json_has(input, "info")
    /\ json_has_all(json_get(input, "info"),
                    << "lwe_secret_keys", "lwe_bootstrap_keys",
                       "lwe_keyswitch_keys" >>)
    /\ \A i \in 1 .. Len(json_get(json_get(input, "info"), "lwe_secret_keys")) :
          json_has_all(json_get(json_get(input, "info"), "lwe_secret_keys")[i],
                       LweSecretKeyInfoFields)
    /\ \A i \in 1 .. Len(json_get(json_get(input, "info"), "lwe_bootstrap_keys")) :
          json_has_all(json_get(json_get(input, "info"), "lwe_bootstrap_keys")[i],
                       LweBootstrapKeyInfoFields)
    /\ \A i \in 1 .. Len(json_get(json_get(input, "info"), "lwe_keyswitch_keys")) :
          json_has_all(json_get(json_get(input, "info"), "lwe_keyswitch_keys")[i],
                       LweKeyswitchKeyInfoFields)

\* serde_json::from_str into the crate's KeysetRestriction: Err (here << >>)
\* when a member is missing, else every key read back by name.
KeysetRestriction_from_json(input) ==
    IF ~KeysetRestriction_json_ok(input)
    THEN << >>
    ELSE LET info == json_get(input, "info")
             secret == json_get(info, "lwe_secret_keys")
             bootstrap == json_get(info, "lwe_bootstrap_keys")
             keyswitch == json_get(info, "lwe_keyswitch_keys")
         IN  << [ info |->
                  [ lwe_secret_keys |->
                      [i \in 1 .. Len(secret) |->
                          [ lwe_dimension |-> json_get(secret[i], "lwe_dimension") ]],
                    lwe_bootstrap_keys |->
                      [i \in 1 .. Len(bootstrap) |->
                          [ level_count |-> json_get(bootstrap[i], "level_count"),
                            base_log |-> json_get(bootstrap[i], "base_log"),
                            glwe_dimension |->
                                json_get(bootstrap[i], "glwe_dimension"),
                            polynomial_size |->
                                json_get(bootstrap[i], "polynomial_size"),
                            input_lwe_dimension |->
                                json_get(bootstrap[i], "input_lwe_dimension") ]],
                    lwe_keyswitch_keys |->
                      [i \in 1 .. Len(keyswitch) |->
                          [ level_count |-> json_get(keyswitch[i], "level_count"),
                            base_log |-> json_get(keyswitch[i], "base_log"),
                            input_lwe_dimension |->
                                json_get(keyswitch[i], "input_lwe_dimension"),
                            output_lwe_dimension |->
                                json_get(keyswitch[i], "output_lwe_dimension") ]] ] ] >>

\* ffi::KeysetRestriction::keyset_restriction_to_json
keyset_restriction_to_json(self) ==
    KeysetRestriction_to_json(keyset_restriction_transmute(self))

\* keyset_restriction_from_json(input): << >> when unwrap() panics on a
\* parse error; the parsed value is transmuted to the ffi struct.
keyset_restriction_from_json(input) ==
    IF KeysetRestriction_from_json(input) = << >>
    THEN << >>
    ELSE << keyset_restriction_transmute(KeysetRestriction_from_json(input)[1]) >>

\* ------------------------------------------------- restriction operations

\* The ffi::RangeRestriction values a caller queries with: each allowed list
\* holds one value or both.
RangeRestrictions ==
    [ glwe_log_polynomial_sizes : {<< 1 >>, << 2, 1 >>},
      glwe_dimensions : {<< 1 >>, << 2, 1 >>},
      internal_lwe_dimensions : {<< 1 >>, << 2, 1 >>},
      pbs_level_count : {<< 1 >>, << 2, 1 >>},
      pbs_base_log : {<< 1 >>, << 2, 1 >>},
      ks_level_count : {<< 1 >>, << 2, 1 >>},
      ks_base_log : {<< 1 >>, << 2, 1 >>} ]

\* The ffi::RangeRestriction values a caller serializes: empty lists, lists
\* out of order and lists with a value twice.
RangeRestrictionsWritten ==
    [ glwe_log_polynomial_sizes : {<< >>, << 2, 1 >>, << 1, 1 >>},
      glwe_dimensions : {<< >>, << 2, 1 >>, << 1, 1 >>},
      internal_lwe_dimensions : {<< >>, << 2, 1 >>, << 1, 1 >>},
      pbs_level_count : {<< >>, << 2, 1 >>, << 1, 1 >>},
      pbs_base_log : {<< >>, << 2, 1 >>, << 1, 1 >>},
      ks_level_count : {<< >>, << 2, 1 >>, << 1, 1 >>},
      ks_base_log : {<< >>, << 2, 1 >>, << 1, 1 >>} ]

\* The keys of the keyset infos a caller supplies.
LweBootstrapKeyInfos ==
    [ level_count : FieldValues, base_log : FieldValues, glwe_dimension : {1},
      polynomial_size : {2}, input_lwe_dimension : {1} ]
LweKeyswitchKeyInfos ==
    [ level_count : FieldValues, base_log : {1}, input_lwe_dimension : {2, 4},
      output_lwe_dimension : FieldValues ]

\* The lists of at most one key.
AtMostOne(keys) == {<< >>} \cup {<< k >> : k \in keys}

\* The ffi::KeysetRestriction values a caller supplies.
KeysetRestrictions ==
    { [ info |-> [ lwe_secret_keys |-> s, lwe_bootstrap_keys |-> b,
                   lwe_keyswitch_keys |-> k ] ] :
        s \in {<< >>, << [lwe_dimension |-> 1] >>,
                 << [lwe_dimension |-> 2], [lwe_dimension |-> 1] >>},
        b \in AtMostOne(LweBootstrapKeyInfos),
        k \in AtMostOne(LweKeyswitchKeyInfos) }

\* The restriction pointers of ffi::Options: each null or set.
RestrictedOptionsSet ==
    [ range_restriction :
          {<< >>} \cup
          {<< r >> : r \in {x \in RangeRestrictions :
                               /\ x.glwe_dimensions = << 2, 1 >>
                               /\ x.internal_lwe_dimensions = << 2, 1 >>
                               /\ x.pbs_base_log = << 2, 1 >>
                               /\ x.ks_level_count = << 2, 1 >>
                               /\ x.ks_base_log = x.pbs_level_count }},
      keyset_restriction :
          {<< >>} \cup
          {<< k >> : k \in {x \in KeysetRestrictions :
                               /\ Len(x.info.lwe_secret_keys) = 2
                               /\ x.info.lwe_bootstrap_keys # << >>
                               /\ x.info.lwe_keyswitch_keys # << >>
                               /\ x.info.lwe_keyswitch_keys[1].input_lwe_dimension = 2
                               /\ x.info.lwe_keyswitch_keys[1].output_lwe_dimension
                                     = 1 }} ]

\* What a call on a restriction leaves alone: the graph and the edit count.
RestrictionUnchanged ==
    UNCHANGED << operators, output_tags, compositions, edits, aborted, index >>

\* One query of a search on an ffi::RangeRestriction.
RangeQuery(r, c) ==
    /\ ~aborted
    /\ returned = NoReturn
    /\ returned' = [ fn |-> "RangeRestriction::is_available",
                     value |-> << range_is_available(r, c) >>,
                     origin |-> "caller",
                     options |-> << r >>,
                     arg |-> << c >> ]
    /\ RestrictionUnchanged

\* One query of a search on an ffi::KeysetRestriction.
KeysetQuery(k, c) ==
    /\ ~aborted
    /\ returned = NoReturn
    /\ returned' = [ fn |-> "KeysetRestriction::is_available",
                     value |-> << keyset_is_available(k, c) >>,
                     origin |-> "caller",
                     options |-> << k >>,
                     arg |-> << c >> ]
    /\ RestrictionUnchanged

\* One query of the search run by Dag::optimize_multi(options), put to the
\* restriction the call hands to it.
RestrictionQuery(options, c) ==
    /\ ~aborted
    /\ returned = NoReturn
    /\ returned' = [ fn |-> "optimize_multi::is_available",
                     value |-> << restriction_is_available(
                                     restriction_in_force(options), c) >>,
                     origin |-> "caller",
                     options |-> << options >>,
                     arg |-> << c >> ]
    /\ RestrictionUnchanged

\* r.range_restriction_to_json()
RangeToJson(r) ==
    /\ ~aborted
    /\ returned = NoReturn
    /\ returned' = [ fn |-> "range_restriction_to_json",
                     value |-> << range_restriction_to_json(r) >>,
                     origin |-> "caller",
                     options |-> << r >>,
                     arg |-> << >> ]
    /\ RestrictionUnchanged

\* range_restriction_from_json on the text the caller holds.
RangeFromJson ==
    /\ ~aborted
    /\ returned.fn = "range_restriction_to_json"
    /\ IF range_restriction_from_json(returned.value[1]) = << >>
       THEN /\ aborted' = TRUE
            /\ returned' = NoReturn
       ELSE /\ returned' = [returned EXCEPT
                               !.fn = "range_restriction_from_json",
                               !.arg = returned.value,
                               !.value = range_restriction_from_json(
                                            returned.value[1])]
            /\ UNCHANGED aborted
    /\ UNCHANGED << operators, output_tags, compositions, edits, index >>

\* k.keyset_restriction_to_json()
KeysetToJson(k) ==
    /\ ~aborted
    /\ returned = NoReturn
    /\ returned' = [ fn |-> "keyset_restriction_to_json",
                     value |-> << keyset_restriction_to_json(k) >>,
                     origin |-> "caller",
                     options |-> << k >>,
                     arg |-> << >> ]
    /\ RestrictionUnchanged

\* keyset_restriction_from_json on the text the caller holds.
KeysetFromJson ==
    /\ ~aborted
    /\ returned.fn = "keyset_restriction_to_json"
    /\ IF keyset_restriction_from_json(returned.value[1]) = << >>
       THEN /\ aborted' = TRUE
            /\ returned' = NoReturn
       ELSE /\ returned' = [returned EXCEPT
                               !.fn = "keyset_restriction_from_json",
                               !.arg = returned.value,
                               !.value = keyset_restriction_from_json(
                                            returned.value[1])]
            /\ UNCHANGED aborted
    /\ UNCHANGED << operators, output_tags, compositions, edits, index >>

\* --------------------------------------------------- restricted search

\* The parameter assignments of one partition a search looks at: the macro
\* parameters and the bootstrap and keyswitch decompositions.
Assignments ==
    [ macro : MacroParametersSet, pbs : DecompositionParametersSet,
      ks : DecompositionParametersSet ]

\* The queries a search puts to the restriction for one assignment.
assignment_queries(a) ==
    { Query("glwe", 0, a.macro, 0, DefaultMacro, DefaultDecomposition,
            DefaultDecomposition),
      Query("macro", 0, a.macro, 0, DefaultMacro, DefaultDecomposition,
            DefaultDecomposition),
      Query("micro_pbs", 0, a.macro, 0, DefaultMacro, a.pbs,
            DefaultDecomposition),
      Query("micro_ks", 0, a.macro, 0, a.macro, DefaultDecomposition, a.ks) }

\* What the graph and the options ask of an assignment whatever the
\* restriction: here a least bootstrap level; no assignment reaches level 3.
NoiseLevels == {1, 2, 3}
noise_feasible(a, least_level) == a.pbs.level >= least_level

\* The assignments a search may return: those the noise constraints admit
\* and every query of which the restriction in force answers true.
feasible_region(options, least_level) ==
    { a \in Assignments :
         /\ noise_feasible(a, least_level)
         /\ \A c \in assignment_queries(a) :
               restriction_is_available(restriction_in_force(options), c) }

\* The options of a solve with or without a range restriction.
RangeOptionsSet ==
    [ range_restriction : {<< >>} \cup {<< r >> : r \in RangeRestrictions},
      keyset_restriction : {<< >>} ]

\* The search of dag.optimize_multi(options) over the restricted space.
RestrictedSearch(options, least_level) ==
    /\ ~aborted
    /\ returned = NoReturn
    /\ returned' = [ fn |-> "optimize_multi::feasible_region",
                     value |-> << feasible_region(options, least_level) >>,
                     origin |-> IF feasible_region(options, least_level) = {}
                                THEN "none" ELSE "found",
                     options |-> << options >>,
                     arg |-> << least_level >> ]
    /\ RestrictionUnchanged

\* ------------------------------------------------------- partition cut

\* ffi::MultiParamStrategy as Options carries it; the enum comes over the
\* bridge as an integer, so a value that is neither variant can arrive.
MultiParamStrategies == {"ByPrecision", "ByPrecisionAndNorm2", "other"}

\* PartitionCut::for_each_precision: one partition per distinct declared
\* output precision.
for_each_precision ==
    {<< operators[i].out_precision >> : i \in 1 .. dag_len}

\* PartitionCut::maximal_partitionning: the partitions of a precision
\* further split by the squared-norm bound of the operator.
maximal_partitionning ==
    {<< operators[i].out_precision, operators[i].norm2 >> : i \in 1 .. dag_len}

\* Mutant of p_cut: the two arms of the match exchanged.
p_cut_exchanged(multi_param_strategy) ==
    IF multi_param_strategy = "ByPrecisionAndNorm2"
    THEN for_each_precision
    ELSE maximal_partitionning

\* p_cut of Dag::optimize_multi: the maximal cut for ByPrecisionAndNorm2,
\* the cut by precision for ByPrecision and for any other value.
p_cut(multi_param_strategy) ==
    IF multi_param_strategy = "ByPrecisionAndNorm2"
    THEN maximal_partitionning
    ELSE for_each_precision

\* The partition cut dag.optimize_multi(options) computes before it
\* searches.
PartitionCut(multi_param_strategy) ==
    /\ ~aborted
    /\ returned = NoReturn
    /\ returned' = [ fn |-> "optimize_multi::p_cut",
                     value |-> << p_cut(multi_param_strategy) >>,
                     origin |-> "none",
                     options |-> << [ multi_param_strategy |->
                                         multi_param_strategy ] >>,
                     arg |-> << >> ]
    /\ UNCHANGED edits
    /\ GraphUnchanged

\* ------------------------------------ multi-parameter solve, step by step

\* One restriction of each kind, for the options of a solve.
SolveRangeRestriction ==
    [ glwe_log_polynomial_sizes |-> << 2, 1 >>,
      glwe_dimensions |-> << 1 >>,
      internal_lwe_dimensions |-> << 2, 1 >>,
      pbs_level_count |-> << 1 >>,
      pbs_base_log |-> << 2, 1 >>,
      ks_level_count |-> << 1 >>,
      ks_base_log |-> << 2, 1 >> ]
SolveKeysetRestriction ==
    [ info |-> [ lwe_secret_keys |-> << [lwe_dimension |-> 2],
                                        [lwe_dimension |-> 1] >>,
                 lwe_bootstrap_keys |-> << >>,
                 lwe_keyswitch_keys |-> << >> ] ]

\* ffi::Options as Dag::optimize_multi reads it: the error ceiling, the
\* partition strategy and the two restriction pointers, each null or set.
MultiOptionsSet ==
    [ maximum_acceptable_error_probability : 0 .. (ONE - 1),
      multi_param_strategy : MultiParamStrategies,
      range_restriction : {<< >>, << SolveRangeRestriction >>},
      keyset_restriction : {<< >>, << SolveKeysetRestriction >>} ]

\* The calls after which a multi-parameter solve can start: none yet, or a
\* solve that returned.
SolveStarts == {"none", "optimize_multi"}

\* let p_cut = match options.multi_param_strategy { ... }: the first step of
\* Dag::optimize_multi(options).
OptimizeMultiCut(options) ==
    /\ ~aborted
    /\ returned.fn \in SolveStarts
    /\ returned' = [ fn |-> "optimize_multi::p_cut",
                     value |-> << p_cut(options.multi_param_strategy) >>,
                     origin |-> "none",
                     options |-> << options >>,
                     arg |-> << >> ]
    /\ UNCHANGED edits
    /\ GraphUnchanged

\* Mutant of optimize_p_cut: the cut handed over only with a restriction,
\* None when the search is unrestricted.
optimize_p_cut_restricted_only(options, cut) ==
    IF options.keyset_restriction = << >> /\ options.range_restriction = << >>
    THEN << >>
    ELSE << cut >>

\* &Some(p_cut), the last argument of optimize in each of the four branches.
optimize_p_cut(options, cut) == << cut >>

\* The branch of Dag::optimize_multi on the two restriction pointers: the
\* search is called with the restriction in force and the cut.
OptimizeMultiSearch ==
    /\ ~aborted
    /\ returned.fn = "optimize_multi::p_cut"
    /\ LET options == returned.options[1]
       IN  returned' = [ fn |-> "optimize_multi::optimize",
                         value |-> optimize_p_cut(options, returned.value[1]),
                         origin |-> "none",
                         options |-> << options >>,
                         arg |-> << restriction_in_force(options) >> ]
    /\ UNCHANGED edits
    /\ GraphUnchanged

\* Mutant of OptimizeMultiReturn: the solve returns straight after the cut
\* as well, the search left out.
OptimizeMultiReturnEarly ==
    /\ ~aborted
    /\ returned.fn \in {"optimize_multi::p_cut", "optimize_multi::optimize"}
    /\ \E circuit_sol \in multi_optimize_generic(returned.options[1], dag_len) :
          returned' = [ fn |-> "optimize_multi",
                        value |-> << circuit_solution_from(circuit_sol) >>,
                        origin |-> IF circuit_sol.is_feasible THEN "found" ELSE "none",
                        options |-> returned.options,
                        arg |-> returned.value ]
    /\ UNCHANGED edits
    /\ GraphUnchanged

\* The search returns and Dag::optimize_multi returns circuit_sol.into().
OptimizeMultiReturn ==
    /\ ~aborted
    /\ returned.fn = "optimize_multi::optimize"
    /\ \E circuit_sol \in multi_optimize_generic(returned.options[1], dag_len) :
          returned' = [ fn |-> "optimize_multi",
                        value |-> << circuit_solution_from(circuit_sol) >>,
                        origin |-> IF circuit_sol.is_feasible THEN "found" ELSE "none",
                        options |-> returned.options,
                        arg |-> returned.value ]
    /\ UNCHANGED edits
    /\ GraphUnchanged

\* ---------------------------------------------------------- specification

\* empty(): a graph with no operator; nothing returned yet.
Init ==
    /\ operators = << >>
    /\ output_tags = << >>
    /\ compositions = << >>
    /\ returned = NoReturn
    /\ edits = 0
    /\ aborted = FALSE
    /\ index = << >>

\* Building and composing a graph; add_composition wires a graph not yet
\* composed.
NextCompose ==
    \/ \E circuit \in CircuitNames, out_precision \in OnePrecision :
          dag_len < MaxOps /\ AddInput(circuit, out_precision)
    \/ \E circuit \in CircuitNames, out_precision \in OnePrecision :
          dag_len < MaxOps /\ AddZeroNoise(circuit, out_precision)
    \/ \E op \in 0 .. (MaxOps - 1) : TagOperatorAsOutput(op)
    \/ \E from_func \in CircuitNames, to_func \in CircuitNames,
          from_pos \in Positions, to_pos \in Positions :
          ~is_composed /\ AddComposition(from_func, from_pos, to_func, to_pos)
    \/ Len(compositions) < MaxCompositions /\ AddAllCompositions

SpecCompose == Init /\ [][NextCompose]_vars

\* Building, composing and solving a graph; a graph is composed by one call.
Next ==
    \/ \E circuit \in CircuitNames, out_precision \in OnePrecision :
          dag_len < MaxSolveOps /\ AddInput(circuit, out_precision)
    \/ \E circuit \in CircuitNames, out_precision \in OnePrecision :
          dag_len < MaxSolveOps /\ AddZeroNoise(circuit, out_precision)
    \/ \E op \in 0 .. (MaxSolveOps - 1) : TagOperatorAsOutput(op)
    \/ \E from_func \in CircuitNames, to_func \in CircuitNames,
          from_pos \in Positions, to_pos \in Positions :
          ~is_composed /\ AddComposition(from_func, from_pos, to_func, to_pos)
    \/ ~is_composed /\ AddAllCompositions
    \/ \E options \in OptionsSet : Optimize(options)
    \/ ConvertToCircuitSolution
    \/ \E options \in OptionsSet : OptimizeMulti(options)

Spec == Init /\ [][Next]_vars

\* A graph of n Input operators of circuit "a", nothing returned yet.
InitSolve ==
    /\ \E n \in 0 .. MaxConvertOps :
          /\ operators = [i \in 1 .. n |->
                             [ circuit |-> "a", kind |-> "Input",
                               inputs |-> << >>, out_precision |-> 4,
                               norm2 |-> FreshNorm2 ]]
          /\ output_tags = [i \in 1 .. n |-> FALSE]
          /\ index = IF n = 0 THEN << >> ELSE << n - 1 >>
    /\ compositions = << >>
    /\ returned = NoReturn
    /\ edits = 0
    /\ aborted = FALSE

\* The solve and conversion calls on a graph that is no longer built, with
\* the values a caller can pass.
NextSolve ==
    \/ \E options \in OptionsSet : OptimizeBootstrap(options)
    \/ ConvertToDagSolution
    \/ \E options \in OptionsSet : Optimize(options)
    \/ \E options \in OptionsSet : OptimizeMulti(options)
    \/ NewDagSolution
    \/ SetDagSolutionField
    \/ ConvertToCircuitSolution

SpecSolve == InitSolve /\ [][NextSolve]_vars


\* The calls on restrictions, each on a caller that holds nothing yet: a
\* query on a restriction, a query on the restriction in force during a
\* multi-parameter solve, and serialization followed by parsing.
NextRestrict ==
    \/ /\ returned = NoReturn
       /\ \E r \in RangeRestrictions, c \in Queries : RangeQuery(r, c)
    \/ /\ returned = NoReturn
       /\ \E k \in KeysetRestrictions, c \in Queries : KeysetQuery(k, c)
    \/ /\ returned = NoReturn
       /\ \E options \in RestrictedOptionsSet, c \in Queries :
             RestrictionQuery(options, c)
    \/ /\ returned = NoReturn
       /\ \E r \in RangeRestrictionsWritten : RangeToJson(r)
    \/ RangeFromJson
    \/ /\ returned = NoReturn
       /\ \E k \in KeysetRestrictions : KeysetToJson(k)
    \/ KeysetFromJson
    \/ /\ returned = NoReturn
       /\ \E options \in RangeOptionsSet, least_level \in NoiseLevels :
             RestrictedSearch(options, least_level)

SpecRestrict == Init /\ [][NextRestrict]_vars

\* The operator indices a builder call names: one of the operators there
\* are, or the index not yet created.
NamedIndices == 0 .. dag_len

\* The first operator, or the index not yet created.
FirstOrMissing == {0, dag_len}

\* The weights of a dot of one input.
WeightsSet == {<< 1 >>, << 2 >>}

\* Building a graph of one circuit with every operation of the builder,
\* tagging its first two operators and composing it once; a graph is cut
\* into partitions before it is composed.
NextBuild ==
    \/ /\ dag_len < MaxBuildOps /\ returned = NoReturn
       /\ \E out_precision \in Precisions : AddInput("a", out_precision)
    \/ /\ dag_len < MaxBuildOps /\ returned = NoReturn
       /\ \E out_precision \in OnePrecision : AddZeroNoise("a", out_precision)
    \/ /\ dag_len < MaxBuildOps /\ returned = NoReturn
       /\ \E input \in NamedIndices, out_precision \in Precisions :
             AddLut("a", input, out_precision)
    \/ /\ dag_len < MaxBuildOps /\ returned = NoReturn
       /\ \E input \in NamedIndices, weights \in WeightsSet :
             AddDot("a", << input >>, weights)
    \/ /\ dag_len < MaxBuildOps /\ returned = NoReturn
       /\ \E input \in FirstOrMissing : AddLinearNoise("a", << input >>)
    \/ /\ dag_len < MaxBuildOps /\ returned = NoReturn
       /\ \E input \in FirstOrMissing : AddMaxNoise("a", << input >>)
    \/ /\ dag_len < MaxBuildOps /\ returned = NoReturn
       /\ \E input \in FirstOrMissing : AddRoundOp("a", input, 4)
    \/ /\ dag_len < MaxBuildOps /\ returned = NoReturn
       /\ \E input \in FirstOrMissing : AddUnsafeCastOp("a", input, 8)
    \/ /\ dag_len < MaxBuildOps /\ returned = NoReturn
       /\ \E input \in FirstOrMissing : AddChangePartitionWithSrc("a", input)
    \/ /\ dag_len < MaxBuildOps /\ returned = NoReturn
       /\ \E input \in FirstOrMissing : AddChangePartitionWithDst("a", input)
    \/ /\ returned = NoReturn
       /\ \E op \in Positions : TagOperatorAsOutput(op)
    \/ /\ returned = NoReturn /\ ~is_composed
       /\ \E from_pos \in Positions : AddComposition("a", from_pos, "a", 0)
    \/ /\ returned = NoReturn /\ ~is_composed
       /\ AddAllCompositions
    \/ /\ dag_len > 0 /\ ~is_composed
       /\ \E multi_param_strategy \in MultiParamStrategies :
             PartitionCut(multi_param_strategy)

SpecBuild == Init /\ [][NextBuild]_vars

\* The operators there are.
BuiltIndices == 0 .. (dag_len - 1)

\* Building a graph of inputs and dots, then solving it for several
\* parameter sets, one step of Dag::optimize_multi at a time; a call runs to
\* its return before the next call starts.
NextMulti ==
    \/ /\ dag_len < MaxSolveOps /\ returned = NoReturn
       /\ \E out_precision \in Precisions : AddInput("a", out_precision)
    \/ /\ dag_len < MaxSolveOps /\ returned = NoReturn
       /\ \E input \in BuiltIndices, weights \in WeightsSet :
             AddDot("a", << input >>, weights)
    \/ /\ dag_len > 0
       /\ \E options \in MultiOptionsSet : OptimizeMultiCut(options)
    \/ OptimizeMultiSearch
    \/ OptimizeMultiReturn

SpecMulti == Init /\ [][NextMulti]_vars

\* The calls that hand over a CircuitSolution, and the two dumps of it.
NextDump ==
    \/ \E options \in OptionsSet : OptimizeBootstrap(options)
    \/ ConvertToDagSolution
    \/ \E options \in OptionsSet : Optimize(options)
    \/ \E options \in OptionsSet : OptimizeMulti(options)
    \/ ConvertToCircuitSolution
    \/ CircuitSolutionDump
    \/ CircuitSolutionShortDump

SpecDump == InitSolve /\ [][NextDump]_vars

\* A request for the variance of a bootstrap, on every cost model, by a
\* caller that holds nothing yet.
NextNoise ==
    /\ returned = NoReturn
    /\ \E cache \in PersistDecompCaches,
          pbs_level \in 1 .. MaxParam, pbs_log2_base \in 1 .. MaxParam :
          GetNoiseBr(cache, pbs_level, pbs_log2_base)

SpecNoise == Init /\ [][NextNoise]_vars

\* A DagSolution written by the caller or found by Dag::optimize is converted
\* to a CircuitSolution and back; a CircuitSolution of Dag::optimize_multi is
\* converted to a DagSolution.
NextRoundTrip ==
    \/ /\ returned = NoReturn
       /\ \E d \in WrittenDagSolutions : WriteDagSolution(d)
    \/ /\ returned = NoReturn
       /\ \E options \in OptionsSet : Optimize(options)
    \/ /\ returned = NoReturn
       /\ \E options \in OptionsSet : OptimizeMulti(options)
    \/ ConvertToCircuitSolution
    \/ DagSolutionFromCircuitSolution

SpecRoundTrip == InitSolve /\ [][NextRoundTrip]_vars

\* A caller that holds nothing yet asks for a location.
NextLocation ==
    \/ /\ returned = NoReturn
       /\ \E string \in LocationStrings : LocationFromString(string)
    \/ /\ returned = NoReturn
       /\ LocationUnknown

SpecLocation == Init /\ [][NextLocation]_vars

\* ------------------------------------------------------------ properties

\* The calls that hand the caller a CircuitSolution.
CircuitSolutionCalls == {"convert_to_circuit_solution", "optimize_multi"}

\* The calls that run a search and may hand back the sentinel.
SentinelCalls == {"optimize_bootstrap", "optimize"}

\* C1, as stated: every CircuitSolution handed back by
\* convert_to_circuit_solution (whatever DagSolution it is given) or by
\* optimize_multi whose feasibility flag is false has error probability
\* exactly 1.0, and so has every Solution / DagSolution by which
\* optimize_bootstrap / Dag::optimize signals infeasibility.
C1_SentinelInfeasibleAnyInput ==
    /\ (returned.fn \in CircuitSolutionCalls /\ ~returned.value[1].is_feasible)
          => FEq(returned.value[1].p_error, ONE)
    /\ (returned.fn \in SentinelCalls /\ returned.origin \in {"none", "composed"})
          => FEq(returned.value[1].p_error, ONE)

\* C1, amended: a CircuitSolution of convert_to_circuit_solution whose
\* feasibility flag is false carries the error probability of its input
\* unchanged, which is not below 1.0; it is exactly 1.0 whenever the input's
\* is not above 1.0 and not NaN, so for every input that comes from
\* optimize_bootstrap or Dag::optimize. The infeasible result of
\* optimize_multi and the Solution / DagSolution by which optimize_bootstrap
\* / Dag::optimize signals infeasibility carry exactly 1.0.
C1_SentinelInfeasible ==
    /\ (returned.fn = "convert_to_circuit_solution" /\ ~returned.value[1].is_feasible)
          => /\ returned.value[1].p_error = returned.arg[1].p_error
             /\ ~FLt(returned.value[1].p_error, ONE)
             /\ FLe(returned.arg[1].p_error, ONE)
                   => FEq(returned.value[1].p_error, ONE)
             /\ returned.origin # "caller" => FEq(returned.value[1].p_error, ONE)
    /\ (returned.fn = "optimize_multi" /\ ~returned.value[1].is_feasible)
          => FEq(returned.value[1].p_error, ONE)
    /\ (returned.fn \in SentinelCalls /\ returned.origin \in {"none", "composed"})
          => FEq(returned.value[1].p_error, ONE)

\* C1, witness: the sentinel of a Dag::optimize that found no tuple has been
\* converted, and the CircuitSolution is infeasible with error probability 1.0.
C1_Witness ==
    /\ returned.fn = "convert_to_circuit_solution"
    /\ returned.origin = "none"
    /\ returned.arg[1] = no_dag_solution
    /\ ~returned.value[1].is_feasible
    /\ returned.value[1].p_error = ONE

\* C2: every CircuitSolution whose feasibility flag is true has an error
\* probability strictly below 1.0, never the 1.0 sentinel, and not above the
\* maximum_acceptable_error_probability of the solve it comes from.
C2_SentinelFeasible ==
    (returned.fn \in CircuitSolutionCalls /\ returned.value[1].is_feasible)
       => /\ FLt(returned.value[1].p_error, ONE)
          /\ ~FEq(returned.value[1].p_error, ONE)
          /\ returned.options # << >>
                => FLe(returned.value[1].p_error,
                       returned.options[1].maximum_acceptable_error_probability)

\* C2, witness: a feasible CircuitSolution converted from a found tuple whose
\* error probability is the configured ceiling itself.
C2_Witness ==
    /\ returned.fn = "convert_to_circuit_solution"
    /\ returned.origin = "found"
    /\ returned.value[1].is_feasible
    /\ returned.value[1].p_error = 1
    /\ returned.options[1].maximum_acceptable_error_probability = 1

KeysWithIdentifier(keys, id) ==
    Cardinality({i \in 1 .. Len(keys) : keys[i].identifier = id})

\* The slot is unused, or names exactly one key of the vector.
SlotNamesOneKey(id, keys) == id = NO_KEY_ID \/ KeysWithIdentifier(keys, id) = 1

\* No two keys of the vector share an identifier.
UniqueIdentifiers(keys) ==
    \A i, j \in 1 .. Len(keys) : keys[i].identifier = keys[j].identifier => i = j

\* C4: in every CircuitSolution handed back, feasible or not, each slot of
\* each InstructionKeys record that is not NO_KEY_ID is the identifier of
\* exactly one key of the matching vector of the CircuitKeys, and the
\* identifiers of each vector are pairwise distinct.
C4_KeyConsistency ==
    returned.fn \in CircuitSolutionCalls =>
       LET keys == returned.value[1].circuit_keys
           table == returned.value[1].instructions_keys
       IN  /\ \A i \in 1 .. Len(table) :
                 /\ SlotNamesOneKey(table[i].input_key, keys.secret_keys)
                 /\ SlotNamesOneKey(table[i].output_key, keys.secret_keys)
                 /\ SlotNamesOneKey(table[i].tlu_keyswitch_key, keys.keyswitch_keys)
                 /\ SlotNamesOneKey(table[i].tlu_bootstrap_key, keys.bootstrap_keys)
                 /\ SlotNamesOneKey(table[i].tlu_circuit_bootstrap_key,
                                    keys.circuit_bootstrap_keys)
                 /\ SlotNamesOneKey(table[i].tlu_private_functional_packing_key,
                                    keys.private_functional_packing_keys)
                 /\ \A k \in 1 .. Len(table[i].extra_conversion_keys) :
                       SlotNamesOneKey(table[i].extra_conversion_keys[k],
                                       keys.conversion_keyswitch_keys)
           /\ UniqueIdentifiers(keys.secret_keys)
           /\ UniqueIdentifiers(keys.keyswitch_keys)
           /\ UniqueIdentifiers(keys.bootstrap_keys)
           /\ UniqueIdentifiers(keys.conversion_keyswitch_keys)
           /\ UniqueIdentifiers(keys.circuit_bootstrap_keys)
           /\ UniqueIdentifiers(keys.private_functional_packing_keys)

\* C4, witness: an infeasible CircuitSolution with one InstructionKeys record
\* whose circuit-bootstrap and packing slots name a key.
C4_Witness ==
    /\ returned.fn = "convert_to_circuit_solution"
    /\ ~returned.value[1].is_feasible
    /\ Len(returned.value[1].instructions_keys) = 1
    /\ returned.value[1].instructions_keys[1].tlu_circuit_bootstrap_key # NO_KEY_ID
    /\ returned.value[1].instructions_keys[1].tlu_private_functional_packing_key
          # NO_KEY_ID

\* C5: for every DagSolution sol it is given, convert_to_circuit_solution
\* builds exactly two secret keys, the big one of sol's GLWE polynomial size
\* and dimension and the small one of sol's internal LWE dimension, exactly
\* one keyswitch key from big to small and one bootstrap key from small to
\* big, carrying sol's ks and br level and base log, and no conversion key.
C5_SinglePartitionKeyset ==
    returned.fn = "convert_to_circuit_solution" =>
       LET sol == returned.arg[1]
           keys == returned.value[1].circuit_keys
           big == keys.secret_keys[1]
           small == keys.secret_keys[2]
       IN  /\ Len(keys.secret_keys) = 2
           /\ big.polynomial_size = sol.glwe_polynomial_size
           /\ big.glwe_dimension = sol.glwe_dimension
           /\ small.polynomial_size = sol.internal_ks_output_lwe_dimension
           /\ small.glwe_dimension = 1
           /\ big.identifier # small.identifier
           /\ Len(keys.keyswitch_keys) = 1
           /\ keys.keyswitch_keys[1].input_key = big
           /\ keys.keyswitch_keys[1].output_key = small
           /\ keys.keyswitch_keys[1].ks_decomposition_parameter =
                 [ level |-> sol.ks_decomposition_level_count,
                   log2_base |-> sol.ks_decomposition_base_log ]
           /\ Len(keys.bootstrap_keys) = 1
           /\ keys.bootstrap_keys[1].input_key = small
           /\ keys.bootstrap_keys[1].output_key = big
           /\ keys.bootstrap_keys[1].br_decomposition_parameter =
                 [ level |-> sol.br_decomposition_level_count,
                   log2_base |-> sol.br_decomposition_base_log ]
           /\ keys.conversion_keyswitch_keys = << >>

\* C5, witness: a caller-written DagSolution whose keyswitch level and base
\* log differ has been converted.
C5_Witness ==
    /\ returned.fn = "convert_to_circuit_solution"
    /\ returned.origin = "caller"
    /\ returned.arg[1].ks_decomposition_level_count = 1
    /\ returned.arg[1].ks_decomposition_base_log = 2
    /\ Len(returned.value[1].circuit_keys.keyswitch_keys) = 1

\* C6: the CircuitKeys of convert_to_circuit_solution holds exactly one
\* circuit-bootstrap key and one private-functional-packing key, both on the
\* big secret key, when the input's use_wop_pbs is true and none of either
\* when it is false; the two vectors have the same length, and the
\* circuit-bootstrap and packing slots of every InstructionKeys record are
\* NO_KEY_ID exactly when the vectors are empty.
C6_WopKeysIffWop ==
    returned.fn = "convert_to_circuit_solution" =>
       LET sol == returned.arg[1]
           keys == returned.value[1].circuit_keys
           table == returned.value[1].instructions_keys
       IN  /\ Len(keys.circuit_bootstrap_keys) = (IF sol.use_wop_pbs THEN 1 ELSE 0)
           /\ Len(keys.private_functional_packing_keys) =
                 (IF sol.use_wop_pbs THEN 1 ELSE 0)
           /\ Len(keys.circuit_bootstrap_keys) =
                 Len(keys.private_functional_packing_keys)
           /\ \A i \in 1 .. Len(keys.circuit_bootstrap_keys) :
                 keys.circuit_bootstrap_keys[i].representation_key
                    = keys.secret_keys[1]
           /\ \A i \in 1 .. Len(keys.private_functional_packing_keys) :
                 keys.private_functional_packing_keys[i].representation_key
                    = keys.secret_keys[1]
           /\ \A i \in 1 .. Len(table) :
                 /\ (table[i].tlu_circuit_bootstrap_key = NO_KEY_ID)
                       <=> (keys.circuit_bootstrap_keys = << >>)
                 /\ (table[i].tlu_private_functional_packing_key = NO_KEY_ID)
                       <=> (keys.private_functional_packing_keys = << >>)

\* C6, witness: a WopSolution of Dag::optimize has been converted against a
\* graph of one operator; both alternate keys exist.
C6_Witness ==
    /\ returned.fn = "convert_to_circuit_solution"
    /\ returned.origin = "found"
    /\ returned.arg[1].use_wop_pbs
    /\ Len(returned.value[1].instructions_keys) = 1
    /\ Len(returned.value[1].circuit_keys.circuit_bootstrap_keys) = 1

\* C7: convert_to_circuit_solution hands back one InstructionKeys record per
\* operator of the graph it is given, all records equal, each with the big
\* secret key as input key and as output key.
C7_PerOperatorKeyTable ==
    [][ConvertToCircuitSolution =>
          LET table == returned'.value[1].instructions_keys
              big == returned'.value[1].circuit_keys.secret_keys[1]
          IN  /\ Len(table) = Len(operators)
              /\ \A i, j \in 1 .. Len(table) : table[i] = table[j]
              /\ \A i \in 1 .. Len(table) :
                    /\ table[i].input_key = big.identifier
                    /\ table[i].output_key = big.identifier]_vars

\* C7, witness: a graph of two operators in two circuits has been converted
\* against and the table holds two records.
C7_Witness ==
    /\ returned.fn = "convert_to_circuit_solution"
    /\ Len(operators) = 2
    /\ operators[1].circuit # operators[2].circuit
    /\ Len(returned.value[1].instructions_keys) = 2

\* C8: a search that finds no tuple makes optimize_bootstrap and
\* Dag::optimize return, without a fault, a value with p_error = 1.0; that
\* value taken through convert_to_dag_solution keeps p_error = 1.0 and
\* through convert_to_circuit_solution gives is_feasible = false with the
\* message that no crypto-parameters satisfy the constraints; the message of
\* a CircuitSolution is empty exactly when is_feasible is true.
C8_InfeasibilityIsAValue ==
    /\ (returned.fn \in SentinelCalls /\ returned.origin = "none")
          => ~aborted /\ FEq(returned.value[1].p_error, ONE)
    /\ (returned.fn = "convert_to_dag_solution" /\ returned.origin = "none")
          => ~aborted /\ FEq(returned.value[1].p_error, ONE)
    /\ (returned.fn = "convert_to_circuit_solution" /\ returned.origin = "none")
          => /\ ~aborted
             /\ ~returned.value[1].is_feasible
             /\ returned.value[1].error_msg
                   = "No crypto-parameters for the given constraints"
    /\ returned.fn \in CircuitSolutionCalls
          => (returned.value[1].error_msg = "" <=> returned.value[1].is_feasible)

\* C8, witness: optimize_bootstrap found no tuple and its Solution went
\* through convert_to_dag_solution and convert_to_circuit_solution.
C8_Witness ==
    /\ returned.fn = "convert_to_circuit_solution"
    /\ returned.origin = "none"
    /\ returned.arg[1] = convert_to_dag_solution(no_solution)
    /\ ~returned.value[1].is_feasible
    /\ returned.value[1].error_msg # ""

\* The operators of the unit flagged output, and those of kind Input.
DeclaredOutputs == {id \in 0 .. (Len(operators) - 1) : output_tags[id + 1]}
DeclaredInputs ==
    {id \in 0 .. (Len(operators) - 1) : operators[id + 1].kind = "Input"}

\* How many of the edges join `from` to `to`.
EdgeCount(edges, from, to) ==
    Cardinality({k \in 1 .. Len(edges) : edges[k] = [from |-> from, to |-> to]})

\* C9: add_all_compositions on a unit that declares m outputs and n inputs
\* records exactly m*n edges, one for every (output, input) pair, pairs
\* inside one circuit included, and the graph is composed afterwards
\* whenever m*n > 0.
C9_AllCompositionsCrossProduct ==
    [][AddAllCompositions =>
          LET m == Cardinality(DeclaredOutputs)
              n == Cardinality(DeclaredInputs)
              added == SubSeq(compositions', Len(compositions) + 1,
                              Len(compositions'))
          IN  /\ Len(compositions') = Len(compositions) + m * n
              /\ SubSeq(compositions', 1, Len(compositions)) = compositions
              /\ \A from \in DeclaredOutputs, to \in DeclaredInputs :
                    EdgeCount(added, from, to) = 1
              /\ (m * n > 0) => (compositions' # << >>)]_vars

\* C9, witness: a unit of three Input operators over two circuits, two of
\* them flagged output, holds the 2 * 3 = 6 edges of the cross-product.
C9_Witness ==
    /\ Cardinality(DeclaredOutputs) = 2
    /\ Cardinality(DeclaredInputs) = 3
    /\ \E id \in DeclaredInputs : operators[id + 1].circuit = "a"
    /\ \E id \in DeclaredInputs : operators[id + 1].circuit = "b"
    /\ Len(compositions) = 6
    /\ \A from \in DeclaredOutputs, to \in DeclaredInputs :
          EdgeCount(compositions, from, to) = 1

\* The operators of `circuit` flagged output (Input), and the one of them
\* preceded by exactly `pos` others in insertion order.
OutputsOfCircuit(circuit) ==
    {id \in DeclaredOutputs : operators[id + 1].circuit = circuit}
InputsOfCircuit(circuit) ==
    {id \in DeclaredInputs : operators[id + 1].circuit = circuit}
SlotOf(ids, pos) ==
    {id \in ids : Cardinality({other \in ids : other < id}) = pos}

\* C10: add_composition(from, i, to, j) on slots that exist records exactly
\* one edge, from the i-th operator flagged output of circuit `from` to the
\* j-th Input operator of circuit `to`, both counted in insertion order
\* inside that circuit and not across the unit; operators and output flags
\* are left as they were.  With a slot that does not exist no edge is
\* recorded.
C10_AddCompositionSlots ==
    [][\A from_func \in CircuitNames, to_func \in CircuitNames,
          from_pos \in Positions, to_pos \in Positions :
          AddComposition(from_func, from_pos, to_func, to_pos) =>
             LET froms == SlotOf(OutputsOfCircuit(from_func), from_pos)
                 tos == SlotOf(InputsOfCircuit(to_func), to_pos)
             IN  /\ operators' = operators
                 /\ output_tags' = output_tags
                 /\ IF froms # {} /\ tos # {}
                    THEN /\ Len(compositions') = Len(compositions) + 1
                         /\ SubSeq(compositions', 1, Len(compositions))
                               = compositions
                         /\ compositions'[Len(compositions')].from \in froms
                         /\ compositions'[Len(compositions')].to \in tos
                         /\ ~aborted'
                    ELSE compositions' = compositions]_vars

\* C10, witness: output slot 0 of circuit "b" and input slot 0 of circuit "b"
\* are wired while circuit "a" declares an earlier output and an earlier
\* input, so the edge is not the one a count across the unit gives.
C10_Witness ==
    /\ Len(operators) = 3
    /\ operators[1].circuit = "a" /\ operators[1].kind = "Input"
    /\ operators[2].circuit = "b" /\ operators[2].kind = "Input"
    /\ operators[3].circuit = "b" /\ operators[3].kind = "ZeroNoise"
    /\ output_tags = << TRUE, FALSE, TRUE >>
    /\ compositions = << [from |-> 2, to |-> 1] >>

\* C11: add_composition with an output slot not below the number of outputs
\* of the from-circuit, an input slot not below the number of inputs of the
\* to-circuit, or a circuit name that does not exist, ends the process: no
\* edge is recorded, the graph is left as it was and nothing is handed back,
\* neither a degraded result nor the infeasibility sentinel.
C11_AddCompositionFailsFatally ==
    [][\A from_func \in CircuitNames, to_func \in CircuitNames,
          from_pos \in Positions, to_pos \in Positions :
          (/\ AddComposition(from_func, from_pos, to_func, to_pos)
           /\ \/ from_pos >= Cardinality(OutputsOfCircuit(from_func))
              \/ to_pos >= Cardinality(InputsOfCircuit(to_func))
              \/ \A id \in 0 .. (Len(operators) - 1) :
                    operators[id + 1].circuit # from_func
              \/ \A id \in 0 .. (Len(operators) - 1) :
                    operators[id + 1].circuit # to_func)
          => /\ aborted'
             /\ compositions' = compositions
             /\ operators' = operators
             /\ output_tags' = output_tags
             /\ returned' = NoReturn]_vars

\* C11, witness: the process has ended on a graph in which circuit "a" holds
\* an Input operator flagged output, so slot 0 of "a" exists on both sides
\* and the failing call named slot 1 or circuit "b".
C11_Witness ==
    /\ aborted
    /\ Len(operators) = 1
    /\ operators[1].circuit = "a" /\ operators[1].kind = "Input"
    /\ output_tags = << TRUE >>
    /\ compositions = << >>
    /\ returned = NoReturn

\* C12: the restriction in force during optimize_multi is the conjunction of
\* the restrictions supplied in Options: with range and keyset both present
\* a candidate is available iff both say so, with one present that one
\* alone decides, and with neither present each of the five queries
\* answers true for every partition and candidate.
C12_RestrictionInForce ==
    returned.fn = "optimize_multi::is_available" =>
       LET options == returned.options[1]
           c == returned.arg[1]
           answer == returned.value[1]
           by_range == range_is_available(options.range_restriction[1], c)
           by_keyset == keyset_is_available(options.keyset_restriction[1], c)
       IN  /\ (options.range_restriction # << >>
                  /\ options.keyset_restriction # << >>)
                 => (answer <=> (by_range /\ by_keyset))
           /\ (options.range_restriction # << >>
                  /\ options.keyset_restriction = << >>)
                 => (answer <=> by_range)
           /\ (options.range_restriction = << >>
                  /\ options.keyset_restriction # << >>)
                 => (answer <=> by_keyset)
           /\ (options.range_restriction = << >>
                  /\ options.keyset_restriction = << >>)
                 => answer

\* C12, witness: with both restrictions supplied, a bootstrap candidate that
\* the keyset restriction admits and the range restriction rejects is
\* reported unavailable.
C12_Witness ==
    /\ returned.fn = "optimize_multi::is_available"
    /\ returned.options[1].range_restriction # << >>
    /\ returned.options[1].keyset_restriction # << >>
    /\ returned.arg[1].query = "micro_pbs"
    /\ keyset_is_available(returned.options[1].keyset_restriction[1],
                           returned.arg[1])
    /\ ~range_is_available(returned.options[1].range_restriction[1],
                           returned.arg[1])
    /\ ~returned.value[1]

\* The values an allowed list of a RangeRestriction holds.
AllowedSet(list) == {list[i] : i \in 1 .. Len(list)}

\* The discrete fields a query covers, each in its allowed set.
FieldsAllowed(r, c) ==
    CASE c.query = "glwe" ->
           /\ c.from_macro.glwe_params.log2_polynomial_size
                 \in AllowedSet(r.glwe_log_polynomial_sizes)
           /\ c.from_macro.glwe_params.glwe_dimension
                 \in AllowedSet(r.glwe_dimensions)
      [] c.query = "macro" ->
           c.from_macro.internal_dim \in AllowedSet(r.internal_lwe_dimensions)
      [] c.query = "micro_pbs" ->
           /\ c.pbs_parameters.level \in AllowedSet(r.pbs_level_count)
           /\ c.pbs_parameters.log2_base \in AllowedSet(r.pbs_base_log)
      [] c.query \in {"micro_ks", "micro_fks"} ->
           /\ c.ks_parameters.level \in AllowedSet(r.ks_level_count)
           /\ c.ks_parameters.log2_base \in AllowedSet(r.ks_base_log)

\* C13: each of the five availability queries on a RangeRestriction answers
\* true iff every discrete field of the candidate that the query covers is
\* a member of the corresponding allowed set of the caller; the answer is
\* the same for every partition index and the query changes no state an
\* earlier or later query could read.
C13_RangeIsSetMembership ==
    returned.fn = "RangeRestriction::is_available" =>
       LET r == returned.options[1]
           c == returned.arg[1]
           answer == returned.value[1]
       IN  /\ answer <=> FieldsAllowed(r, c)
           /\ \A p \in Partitions, q \in Partitions :
                 answer <=> range_is_available(
                               r, [c EXCEPT !.from_partition = p,
                                            !.to_partition = q])
           /\ operators = << >> /\ compositions = << >> /\ ~aborted

\* C13, witness: a bootstrap decomposition of level 2 and base log 1 is
\* available under a restriction allowing levels 2 and 1 and base log 1 only.
C13_Witness ==
    /\ returned.fn = "RangeRestriction::is_available"
    /\ returned.arg[1].query = "micro_pbs"
    /\ returned.arg[1].pbs_parameters = [ level |-> 2, log2_base |-> 1 ]
    /\ returned.options[1].pbs_level_count = << 2, 1 >>
    /\ returned.options[1].pbs_base_log = << 1 >>
    /\ returned.value[1]

\* The keys a list of a keyset info holds.
KeysOf(list) == {list[i] : i \in 1 .. Len(list)}

WithoutAt(list, i) ==
    [j \in 1 .. (Len(list) - 1) |-> IF j < i THEN list[j] ELSE list[j + 1]]

\* The range restrictions got from r by removing one value from one list.
Tightenings(r) ==
    { [r EXCEPT ![f] = WithoutAt(r[f], i)] :
         << f, i >> \in { << g, j >> \in (DOMAIN r) \X (1 .. 2) :
                             j <= Len(r[g]) } }

\* C15: for a fixed graph and options, every assignment admissible under a
\* range-restricted multi-parameter solve is admissible under the
\* unrestricted solve, and removing a value from any allowed list of the
\* RangeRestriction admits no assignment that was not admissible before, so
\* an infeasible solve never becomes feasible.
C15_RestrictionMonotonicity ==
    (/\ returned.fn = "optimize_multi::feasible_region"
     /\ returned.options[1].range_restriction # << >>) =>
       LET options == returned.options[1]
           least_level == returned.arg[1]
           region == returned.value[1]
           r == options.range_restriction[1]
       IN  /\ region \subseteq
                 feasible_region([options EXCEPT !.range_restriction = << >>],
                                 least_level)
           /\ \A t \in Tightenings(r) :
                 LET tightened ==
                        feasible_region(
                           [options EXCEPT !.range_restriction = << t >>],
                           least_level)
                 IN  /\ tightened \subseteq region
                     /\ region = {} => tightened = {}

\* C15, witness: a range-restricted solve that admits some assignment, fewer
\* than the unrestricted solve, and that a tightening makes infeasible.
C15_Witness ==
    /\ returned.fn = "optimize_multi::feasible_region"
    /\ returned.options[1].range_restriction # << >>
    /\ returned.value[1] # {}
    /\ returned.value[1] #
          feasible_region([returned.options[1] EXCEPT !.range_restriction = << >>],
                          returned.arg[1])
    /\ \E t \in Tightenings(returned.options[1].range_restriction[1]) :
          feasible_region(
             [returned.options[1] EXCEPT !.range_restriction = << t >>],
             returned.arg[1]) = {}

DeclaredPrecisions == {operators[i].out_precision : i \in 1 .. Len(operators)}

\* Three operators of precisions 4, 4 and 8.
Precisions448 ==
    /\ Len(operators) = 3
    /\ Cardinality({i \in 1 .. 3 : operators[i].out_precision = 4}) = 2
    /\ Cardinality({i \in 1 .. 3 : operators[i].out_precision = 8}) = 1

\* The operators of precision 4 differ in their squared-norm bound.
DifferingNorms ==
    \A i \in 1 .. Len(operators), j \in 1 .. Len(operators) :
       (i # j /\ operators[i].out_precision = 4
              /\ operators[j].out_precision = 4)
          => operators[i].norm2 # operators[j].norm2

\* C17: the By-Precision policy yields exactly one partition per distinct
\* declared output precision of the graph, 2 partitions for precisions
\* {4, 4, 8}; By-Precision-And-Norm2 on such a graph with differing norm
\* bounds on the two operators of precision 4 yields 3 partitions, and on no
\* graph fewer partitions than By-Precision.
C17_PartitionCutCounts ==
    returned.fn = "optimize_multi::p_cut" =>
       LET strategy == returned.options[1].multi_param_strategy
           partitions == Cardinality(returned.value[1])
       IN  /\ strategy = "ByPrecision" =>
                 /\ partitions = Cardinality(DeclaredPrecisions)
                 /\ Precisions448 => partitions = 2
           /\ strategy = "ByPrecisionAndNorm2" =>
                 /\ partitions >= Cardinality(DeclaredPrecisions)
                 /\ (Precisions448 /\ DifferingNorms) => partitions = 3

\* C17, witness: an input of precision 4, a dot of it with weight 2 and a
\* table lookup to precision 8, cut by precision and norm into 3 partitions.
C17_Witness ==
    /\ returned.fn = "optimize_multi::p_cut"
    /\ returned.options[1].multi_param_strategy = "ByPrecisionAndNorm2"
    /\ Precisions448
    /\ DifferingNorms
    /\ operators[2].kind = "Dot"
    /\ operators[3].kind = "Lut"
    /\ Cardinality(returned.value[1]) = 3

\* The variants the operations of the builder append.
BuilderKinds ==
    { "Input", "ZeroNoise", "Lut", "Dot", "LinearNoise", "MaxNoise", "Round",
      "UnsafeCast", "ChangePartitionSrc", "ChangePartitionDst" }

\* C18: every successful builder operation grows the operator sequence by
\* exactly one and returns the index of the operator it appended, so that
\* after n operations the indices handed out are 0 .. n - 1 in insertion
\* order; no operation, tag_operator_as_output and the composition calls
\* included, changes the index or the content of an existing operator.
C18_AppendOnlyDenseIndexing ==
    /\ [](index = IF Len(operators) = 0 THEN << >>
                  ELSE << Len(operators) - 1 >>)
    /\ [][/\ Len(operators') \in {Len(operators), Len(operators) + 1}
          /\ \A i \in 1 .. Len(operators) : operators'[i] = operators[i]
          /\ Len(operators') = Len(operators) + 1 =>
                /\ index' = << Len(operators) >>
                /\ operators'[index'[1] + 1].kind \in BuilderKinds
                /\ output_tags' = Append(output_tags, FALSE)
                /\ compositions' = compositions
          /\ Len(operators') = Len(operators) => index' = index]_vars

\* C18, witness: three operators appended by three operations, the first
\* tagged as output and composed with itself, the last call having returned
\* index 2.
C18_Witness ==
    /\ Len(operators) = 3
    /\ operators[1].kind = "Input"
    /\ operators[2].kind = "Lut"
    /\ operators[3].kind = "Dot"
    /\ operators[3].inputs = << 1 >>
    /\ output_tags[1]
    /\ compositions = << [from |-> 0, to |-> 0] >>
    /\ index = << 2 >>
    /\ ~aborted

\* The graph is as it was before the step.
GraphKept == UNCHANGED << operators, output_tags, compositions >>

\* C19: in every reachable graph each operator's input references are
\* indices strictly smaller than its own index, so there is no forward or
\* self reference; a builder call that names an index not yet created is
\* rejected, the call aborting, and leaves the graph unchanged.
C19_IndexValidity ==
    /\ [](\A id \in 0 .. (Len(operators) - 1) :
             \A i \in 1 .. Len(operators[id + 1].inputs) :
                operators[id + 1].inputs[i] < id)
    /\ [][/\ (aborted' /\ ~aborted) => GraphKept
          /\ \A out_precision \in Precisions :
                AddLut("a", Len(operators), out_precision)
                   => (aborted' /\ GraphKept)
          /\ \A weights \in WeightsSet :
                AddDot("a", << Len(operators) >>, weights)
                   => (aborted' /\ GraphKept)
          /\ AddLinearNoise("a", << Len(operators) >>) => (aborted' /\ GraphKept)
          /\ AddMaxNoise("a", << Len(operators) >>) => (aborted' /\ GraphKept)
          /\ AddRoundOp("a", Len(operators), 4) => (aborted' /\ GraphKept)
          /\ AddUnsafeCastOp("a", Len(operators), 8) => (aborted' /\ GraphKept)
          /\ AddChangePartitionWithSrc("a", Len(operators))
                => (aborted' /\ GraphKept)
          /\ AddChangePartitionWithDst("a", Len(operators))
                => (aborted' /\ GraphKept)]_vars

\* C19, witness: a graph of an input and a dot of it, both tagged as
\* outputs so that no composition call can fail, on which a builder call
\* naming an index not yet created aborted.
C19_Witness ==
    /\ aborted
    /\ Len(operators) = 2
    /\ operators[1].kind = "Input"
    /\ operators[2].kind = "Dot" /\ operators[2].inputs = << 0 >>
    /\ output_tags[1] /\ output_tags[2]
    /\ compositions = << >>

\* How many times an operator appears in get_output_indices.
OutputOccurrences(op) ==
    Cardinality({i \in 1 .. Len(get_output_operators_iter) :
                    get_output_operators_iter[i] = op})

\* C20: tagging an existing index that is already tagged leaves the graph in
\* the state it was in; after a tag the operator appears exactly once in
\* get_output_indices, and the operator sequence and the tags of the other
\* operators are unchanged.
C20_TagIsIdempotent ==
    [][\A op \in Positions :
          TagOperatorAsOutput(op) =>
             /\ output_tags[op + 1] => UNCHANGED vars
             /\ output_tags'[op + 1]
             /\ operators' = operators
             /\ compositions' = compositions
             /\ Len(output_tags') = Len(output_tags)
             /\ \A other \in 0 .. (Len(operators) - 1) :
                   other # op => output_tags'[other + 1] = output_tags[other + 1]
             /\ OutputOccurrences(op)' = 1]_vars

\* C20, witness: of two operators the second is tagged and not the first;
\* it appears once among the outputs.
C20_Witness ==
    /\ Len(operators) = 2
    /\ ~output_tags[1]
    /\ output_tags[2]
    /\ OutputOccurrences(1) = 1
    /\ get_output_operators_iter = << 1 >>
    /\ ~aborted

\* C21: Dag::optimize_multi computes one partition cut per call, before the
\* search starts, from options.multi_param_strategy and the graph alone: the
\* maximal cut for ByPrecisionAndNorm2, the cut by precision for ByPrecision;
\* that cut is what the search receives in each of the four restriction
\* cases, and it is the cut of the call whatever the search returns.
C21_PartitionPolicyChosenOnce ==
    /\ [](returned.fn \in {"optimize_multi::p_cut", "optimize_multi::optimize",
                           "optimize_multi"} =>
             LET strategy == returned.options[1].multi_param_strategy
                 cut == IF returned.fn = "optimize_multi"
                        THEN returned.arg ELSE returned.value
             IN  /\ strategy = "ByPrecisionAndNorm2" =>
                       cut = << maximal_partitionning >>
                 /\ strategy = "ByPrecision" => cut = << for_each_precision >>
                 /\ cut \in {<< maximal_partitionning >>, << for_each_precision >>})
    /\ [][/\ returned'.fn = "optimize_multi::p_cut" =>
                returned.fn \notin {"optimize_multi::p_cut",
                                    "optimize_multi::optimize"}
          /\ returned'.fn = "optimize_multi::optimize" =>
                /\ returned.fn = "optimize_multi::p_cut"
                /\ returned'.value = returned.value
                /\ returned'.options = returned.options
          /\ (returned'.fn = "optimize_multi" /\ returned' # returned) =>
                /\ returned.fn = "optimize_multi::optimize"
                /\ returned'.arg = returned.value
                /\ returned'.options = returned.options]_vars

\* C21, witness: a solve with both restrictions and ByPrecisionAndNorm2 on an
\* input and a dot of it with weight 2 has returned a feasible solution; its
\* cut was the maximal one, of two partitions where the cut by precision has
\* one.
C21_Witness ==
    /\ returned.fn = "optimize_multi"
    /\ returned.value[1].is_feasible
    /\ returned.options[1].multi_param_strategy = "ByPrecisionAndNorm2"
    /\ returned.options[1].range_restriction # << >>
    /\ returned.options[1].keyset_restriction # << >>
    /\ Len(operators) = 2
    /\ operators[2].kind = "Dot"
    /\ returned.arg = << maximal_partitionning >>
    /\ Cardinality(maximal_partitionning) = 2
    /\ Cardinality(for_each_precision) = 1

\* The phase of a multi-parameter solve the caller's state is in.
SolvePhase ==
    CASE returned.fn = "optimize_multi::p_cut" -> "PartitionsCut"
      [] returned.fn = "optimize_multi::optimize" -> "PerPartitionSearch"
      [] returned.fn = "optimize_multi" ->
            IF returned.value[1].is_feasible
            THEN "KeysAssigned" ELSE "SentinelSolution"
      [] OTHER -> "GraphBuilt"

\* The place of a phase in the order of a solve.
PhaseOrder(phase) ==
    CASE phase = "GraphBuilt" -> 0
      [] phase = "PartitionsCut" -> 1
      [] phase = "PerPartitionSearch" -> 2
      [] OTHER -> 3

\* C22: within one multi-parameter solve the phases follow one another in
\* the order GraphBuilt, PartitionsCut, PerPartitionSearch (on the
\* restriction in force, or unrestricted) and then one of KeysAssigned or
\* SentinelSolution: every step of a call enters the next phase, no step
\* goes back, and only the first step of a later call leaves a terminal
\* phase. A returned solution is either feasible with keys assigned or the
\* infeasible sentinel without keys, never both.
C22_SolvePhaseOrdering ==
    /\ [](/\ SolvePhase = "PerPartitionSearch" =>
                returned.arg = << restriction_in_force(returned.options[1]) >>
          /\ SolvePhase = "KeysAssigned" =>
                /\ returned.value[1].circuit_keys.secret_keys # << >>
                /\ Len(returned.value[1].instructions_keys) = Len(operators)
                /\ FLt(returned.value[1].p_error, ONE)
          /\ SolvePhase = "SentinelSolution" =>
                /\ returned.value[1].circuit_keys.secret_keys = << >>
                /\ returned.value[1].instructions_keys = << >>
                /\ returned.value[1].p_error = ONE)
    /\ [][returned' # returned =>
             \/ PhaseOrder(SolvePhase') = PhaseOrder(SolvePhase) + 1
             \/ /\ SolvePhase \in {"KeysAssigned", "SentinelSolution"}
                /\ SolvePhase' = "PartitionsCut"
                /\ returned'.arg = << >>]_vars

\* C22, witness: an unrestricted solve of a graph of two operators has run
\* through its phases and ended with the sentinel solution.
C22_Witness ==
    /\ SolvePhase = "SentinelSolution"
    /\ Len(operators) = 2
    /\ returned.options[1].range_restriction = << >>
    /\ returned.options[1].keyset_restriction = << >>
    /\ returned.arg = << for_each_precision >>
    /\ returned.value[1].error_msg # ""

\* C23: Dag::optimize, Dag::optimize_multi and convert_to_circuit_solution
\* leave the operators with their circuit names, the output tags and the
\* composition edges as they are, and nothing else a build, tag or
\* composition operation reads; so every step of building, tagging and
\* composing interleaved with solve calls is a step of building, tagging and
\* composing without them, and every other step leaves the graph alone. A
\* step that hands the caller a value is a solve call; a composition call
\* that aborts takes the value the caller held with it.
C23_SolvingKeepsGraph ==
    /\ [][(returned' # returned /\ ~aborted') =>
             /\ returned'.fn \in {"optimize", "optimize_multi",
                                  "convert_to_circuit_solution"}
             /\ operators' = operators
             /\ output_tags' = output_tags
             /\ compositions' = compositions
             /\ aborted' = aborted
             /\ index' = index]_vars
    /\ [][UNCHANGED << operators, output_tags, compositions, aborted, index >>
          \/ NextCompose]_vars

\* C23, witness: a solution converted against a graph of one operator is
\* still held while the graph has grown to two operators of two circuits, one
\* tagged, and has been composed.
C23_Witness ==
    /\ returned.fn = "convert_to_circuit_solution"
    /\ Len(returned.value[1].instructions_keys) = 1
    /\ Len(operators) = 2
    /\ operators[1].circuit # operators[2].circuit
    /\ output_tags = << TRUE, FALSE >>
    /\ compositions # << >>

\* C24: short_dump(s) is the dump of a copy of s with an empty
\* per-instruction key table and every other field as in s, so it differs
\* from dump(s) in that field alone; neither call changes s, and a dump taken
\* after a short dump lists one record per instruction key of s.
C24_ShortDump ==
    /\ [](returned.fn = "CircuitSolution::short_dump" =>
             LET s == returned.arg[1]
                 copy == [ circuit_keys |-> s.circuit_keys,
                           instructions_keys |-> << >>,
                           crt_decomposition |-> s.crt_decomposition,
                           complexity |-> s.complexity,
                           p_error |-> s.p_error,
                           global_p_error |-> s.global_p_error,
                           is_feasible |-> s.is_feasible,
                           error_msg |-> s.error_msg ]
             IN  /\ returned.value[1] = dump(copy)
                 /\ \A i \in 1 .. 8 :
                       \/ returned.value[1].fields[i] = dump(s).fields[i]
                       \/ /\ i = 2
                          /\ returned.value[1].fields[i] =
                                [ name |-> "instructions_keys", value |-> << >> ])
    /\ [](returned.fn = "CircuitSolution::dump" =>
             /\ returned.value[1].fields[2].name = "instructions_keys"
             /\ Len(returned.value[1].fields[2].value) =
                   Len(returned.arg[1].instructions_keys)
             /\ \A i \in 1 .. Len(returned.arg[1].instructions_keys) :
                   returned.value[1].fields[2].value[i] =
                      InstructionKeys_fmt(returned.arg[1].instructions_keys[i]))
    /\ [][(returned'.fn \in DumpCalls /\ returned' # returned) =>
             returned'.arg = << held_circuit_solution >>]_vars

\* C24, witness: the short dump of a feasible solution converted against a
\* graph of one operator, with the alternate keys, shows no instruction key
\* where the dump shows one.
C24_Witness ==
    /\ returned.fn = "CircuitSolution::short_dump"
    /\ returned.arg[1].is_feasible
    /\ Len(returned.arg[1].instructions_keys) = 1
    /\ Len(returned.arg[1].circuit_keys.circuit_bootstrap_keys) = 1
    /\ returned.value[1].fields[2].value = << >>
    /\ Len(dump(returned.arg[1]).fields[2].value) = 1
    /\ returned.value[1] # dump(returned.arg[1])

\* C25: get_noise_br returns the variance the cost model reports when the
\* requested level and base log are found, whatever that variance is, and
\* aborts when the cost model reports the level or the base log as not
\* found; a request that was not found hands back no value at all.
C25_NoiseBrAbortsWhenNotFound ==
    returned.fn = "get_noise_br" =>
       LET request == returned.arg[1]
           level_found == request.pbs_level \in DOMAIN request.cache
           found == /\ level_found
                    /\ request.cache[request.pbs_level].log2_base =
                          request.pbs_log2_base
       IN  /\ found =>
                /\ ~aborted
                /\ returned.value =
                      << request.cache[request.pbs_level].variance >>
           /\ ~found =>
                /\ aborted
                /\ returned.value = << >>
                /\ returned.origin = IF level_found
                                     THEN "pbs base log didn't match"
                                     ELSE "pbs level not found"

\* C25, witness: a request for a level the cost model does not support has
\* aborted, on a cost model that supports another level.
C25_Witness ==
    /\ returned.fn = "get_noise_br"
    /\ aborted
    /\ returned.value = << >>
    /\ returned.arg[1].pbs_level = 2
    /\ DOMAIN returned.arg[1].cache = {1}
    /\ returned.origin = "pbs level not found"

\* The fields of a DagSolution the conversion to a CircuitSolution and back
\* is to return as they were.
RoundTripFields ==
    { "input_lwe_dimension", "internal_ks_output_lwe_dimension",
      "glwe_polynomial_size", "glwe_dimension",
      "ks_decomposition_level_count", "ks_decomposition_base_log",
      "br_decomposition_level_count", "br_decomposition_base_log",
      "complexity", "p_error", "global_p_error", "use_wop_pbs",
      "crt_decomposition" }

\* The decomposition fields of the alternate keys.
WopFields ==
    { "cb_decomposition_level_count", "cb_decomposition_base_log",
      "pp_decomposition_level_count", "pp_decomposition_base_log" }

\* back is d as the round trip is to return it: the fields of
\* RoundTripFields as in d, those of the alternate keys as in d with
\* use_wop_pbs and 0 without.
RoundTripOf(d, back) ==
    /\ \A f \in RoundTripFields : back[f] = d[f]
    /\ \A f \in WopFields : back[f] = IF d.use_wop_pbs THEN d[f] ELSE 0

\* C26, as stated: the conversion back succeeds for every CircuitSolution
\* that convert_to_circuit_solution produced, and for a DagSolution d with
\* input_lwe_dimension = glwe_polynomial_size * glwe_dimension it returns
\* the fields of d, the decompositions of the alternate keys as in d with
\* use_wop_pbs and as 0 without.
C26_RoundTripAnyProduct ==
    (returned.fn = "DagSolution::from" /\ Len(returned.arg) = 2) =>
       LET d == returned.arg[2]
       IN  /\ ~aborted
           /\ returned.value # << >>
           /\ d.input_lwe_dimension = d.glwe_polynomial_size * d.glwe_dimension
                 => RoundTripOf(d, returned.value[1])

\* C26, amended: the checks of the conversion back (2 secret keys, 1 key of
\* each alternate kind) pass on every CircuitSolution that
\* convert_to_circuit_solution produced, and the conversion succeeds
\* whenever glwe_polynomial_size * glwe_dimension fits a u64; when the
\* product does not fit, the conversion aborts or returns the wrapped
\* product as input_lwe_dimension. For a DagSolution d with
\* input_lwe_dimension = glwe_polynomial_size * glwe_dimension it returns
\* the fields of d, the decompositions of the alternate keys as in d with
\* use_wop_pbs and as 0 without.
C26_RoundTrip ==
    (returned.fn = "DagSolution::from" /\ Len(returned.arg) = 2) =>
       LET d == returned.arg[2]
           product == d.glwe_polynomial_size * d.glwe_dimension
       IN  /\ circuit_solution_checks(returned.arg[1])
           /\ returned.arg[1] = convert_to_circuit_solution(d, Len(operators))
           /\ product < U64Modulus => ~aborted
           /\ aborted <=> returned.value = << >>
           /\ ~aborted =>
                 /\ returned.value[1].input_lwe_dimension = product % U64Modulus
                 /\ d.input_lwe_dimension = product
                       => RoundTripOf(d, returned.value[1])

\* C26, witness: a DagSolution with the alternate keys, polynomial size 2,
\* GLWE dimension 2 and input dimension 4 has gone through both conversions;
\* it came back with its circuit bootstrap level, and with noise_max NaN.
C26_Witness ==
    /\ returned.fn = "DagSolution::from"
    /\ Len(returned.arg) = 2
    /\ ~aborted
    /\ returned.arg[2].use_wop_pbs
    /\ returned.arg[2].glwe_polynomial_size = 2
    /\ returned.arg[2].glwe_dimension = 2
    /\ returned.arg[2].input_lwe_dimension = 4
    /\ returned.arg[2].cb_decomposition_level_count = 2
    /\ returned.value[1].cb_decomposition_level_count = 2
    /\ returned.value[1].pp_decomposition_base_log = 3
    /\ returned.value[1].noise_max = NaN
    /\ returned.arg[2].noise_max = 1
    /\ Len(returned.arg[1].instructions_keys) = 1

\* The places of the separators of a string, and the number of its
\* ':'-separated parts.
Separators(string) == {i \in 1 .. Len(string) : string[i] = ":"}
PartCount(string) == Cardinality(Separators(string)) + 1

\* The part of a string between its n-th separator and the next one, the
\* 0-th separator being the start and the last one the end.
PartOf(string, n) ==
    LET before(i) == Cardinality({j \in Separators(string) : j < i})
    IN  [k \in 1 .. Cardinality({i \in 1 .. Len(string) :
                                    string[i] # ":" /\ before(i) = n}) |->
            string[CHOOSE i \in 1 .. Len(string) :
                      /\ string[i] # ":"
                      /\ before(i) = n
                      /\ Cardinality({j \in 1 .. (i - 1) :
                                         string[j] # ":" /\ before(j) = n}) = k - 1]]

\* The decimal writing of a number.
RECURSIVE Decimal(_)
Decimal(n) ==
    IF n < 10
    THEN << DigitChars[n + 1] >>
    ELSE Decimal(n \div 10) \o << DigitChars[(n % 10) + 1] >>

\* A part is a decimal number: one or more digits, after a sign or not.
IsDecimal(part) ==
    LET digits == IF part # << >> /\ part[1] = "+" THEN Tail(part) ELSE part
    IN  /\ digits # << >>
        /\ \A i \in 1 .. Len(digits) :
              digits[i] \in {"0", "1", "2", "3", "4", "5", "6", "7", "8", "9"}

\* A part writes the number n.
Writes(part, n) == part = Decimal(n) \/ part = << "+" >> \o Decimal(n)

\* C27: location_from_string classifies its argument by the number of
\* ':'-separated parts: one part, the empty string included, gives the file
\* location of the whole string; two parts give file and line, three give
\* file, line and column; four or more give the unknown location. With two
\* or three parts the call aborts when a line or column part is not a
\* decimal number, and a location it returns carries the numbers the parts
\* write.
C27_LocationFromString ==
    returned.fn = "location_from_string" =>
       LET string == returned.arg[1]
           parts == PartCount(string)
           location == returned.value[1]
       IN  /\ parts = 1 =>
                /\ ~aborted
                /\ location = [ variant |-> "File", file |-> << string >>,
                                line |-> << >>, column |-> << >> ]
           /\ parts >= 4 =>
                /\ ~aborted
                /\ location.variant = "Unknown"
           /\ (parts = 2 /\ ~IsDecimal(PartOf(string, 1))) => aborted
           /\ (parts = 3 /\ ~(IsDecimal(PartOf(string, 1))
                              /\ IsDecimal(PartOf(string, 2)))) => aborted
           /\ aborted <=> returned.value = << >>
           /\ (parts = 2 /\ ~aborted) =>
                /\ location.variant = "Line"
                /\ location.file = << PartOf(string, 0) >>
                /\ Writes(PartOf(string, 1), location.line[1])
                /\ location.column = << >>
           /\ (parts = 3 /\ ~aborted) =>
                /\ location.variant = "LineColumn"
                /\ location.file = << PartOf(string, 0) >>
                /\ Writes(PartOf(string, 1), location.line[1])
                /\ Writes(PartOf(string, 2), location.column[1])

\* C27, witness: "f:1:2" has three parts and gives file f, line 1 and
\* column 2.
C27_Witness ==
    /\ returned.fn = "location_from_string"
    /\ returned.arg = << << "f", ":", "1", ":", "2" >> >>
    /\ ~aborted
    /\ returned.value[1] = [ variant |-> "LineColumn", file |-> << << "f" >> >>,
                             line |-> << 1 >>, column |-> << 2 >> ]

=============================================================================
